---- MODULE Spec2Model ----
(***************************************************************************)
(* A model of the DXR "Raytracing Starter": the RayTracing namespace       *)
(* (RayTracing.cpp), the parts of the Graphics namespace it uses           *)
(* (Graphics.cpp: descriptor cursors, constant-buffer ring, command list,  *)
(* fences), Game (Game.cpp) and the WM_SIZE handler (Window.cpp).          *)
(*                                                                         *)
(* Every C++ function is an operator from a state record s to the state    *)
(* after the call, so that a handler is the composition of the calls it    *)
(* makes.  The GPU is a FIFO queue of submitted command lists and fence    *)
(* signals which it retires in order, at its own pace.                     *)
(***************************************************************************)
EXTENDS Integers, Sequences, FiniteSets, TLC

VARIABLES
    rt,       \* globals of namespace RayTracing (RayTracing.h 13-48, RayTracing.cpp 15-16)
    gfx,      \* globals of namespace Graphics (Graphics.h 35-67, Graphics.cpp 22-39)
    gpu,      \* the device: queue, fences, resources, descriptor heap, capabilities,
              \* the builds and UAV barriers submitted to it so far (stream), and
              \* the range of the upload ring each constant-buffer view points to (cbv)
    win,      \* Window.cpp 20-25: windowWidth, windowHeight, isMinimized
    pc,       \* "start" | "running" | "crashed" | "hung"
    viol,     \* history flags: API rules of D3D12 the program has broken so far
    trace,    \* the device / command-list / queue calls of the last handler, in order
    lastOp,   \* which handler ran last, and what it returned
    opCount,  \* number of handlers run so far
    calc,     \* inputs and results of the pure size computations
    xf        \* the Transform objects (Transform.h 57-59, 73): parent, children, matricesDirty

vars == <<rt, gfx, gpu, win, pc, viol, trace, lastOp, opCount, calc, xf>>

----------------------------------------------------------------------------
\* Bounds of the model

MaxOps == 5               \* calls per run of the library-level specification
MaxSteps == 6             \* frames and messages per run of the program
MaxConstantBuffers == 4   \* Graphics.h 21 (1000), scaled down
MaxTextureDescriptors == 6 \* Graphics.h 30 (1000), scaled down
MaxIdSize == 5            \* sizes tried by the pure record-size computation
MaxHandleSize == 3
MaxAlign == 6
MaxPrebuildSize == 260
MaxRingOps == 3           \* constant-buffer reservations per run of the ring specification
MaxTransforms == 3        \* Transform objects of the hierarchy specification
MaxTransformOps == 4      \* hierarchy calls per run

----------------------------------------------------------------------------
\* Program constants

\* HRESULTs (only their sign matters to FAILED())
S_OK == 0
E_FAIL == -1
FAILED(hr) == hr < 0

NULL == 0   \* a null ComPtr; resources are numbered from 1

NumBackBuffers == 2
D3D12_SHADER_IDENTIFIER_SIZE_IN_BYTES == 32
D3D12_RAYTRACING_SHADER_RECORD_BYTE_ALIGNMENT == 32
D3D12_RAYTRACING_SHADER_TABLE_BYTE_ALIGNMENT == 64
D3D12_RAYTRACING_ACCELERATION_STRUCTURE_BYTE_ALIGNMENT == 256
SizeofGpuDescriptorHandle == 8
SizeofRaytracingSceneData == 76
SizeofInstanceDesc == 64


\* What the device may be: the descriptor increment size and the heap start
\* addresses it hands out, the byte a fresh buffer is filled with, and the
\* sizes it reports from GetRaytracingAccelerationStructurePrebuildInfo.
DeviceProfiles ==
    { [inc |-> 32, cpuStart |-> 4096, gpuStart |-> 8192, fresh |-> 0,
       prebuildBLAS |-> [scratch |-> 256, result |-> 257],
       prebuildTLAS |-> [scratch |-> 1000, result |-> 512]],
      [inc |-> 64, cpuStart |-> 65536, gpuStart |-> 0, fresh |-> 205,
       prebuildBLAS |-> [scratch |-> 1, result |-> 1024],
       prebuildTLAS |-> [scratch |-> 255, result |-> 768]] }

\* The results the device may give to the three capability queries of
\* RayTracing::Initialize (a failed feature query leaves the tier at 0).
DeviceCaps ==
    { c \in [supportResult : {S_OK, E_FAIL},
             RaytracingTier : {"NOT_SUPPORTED", "TIER_1_0"},
             dxrDeviceResult : {S_OK, E_FAIL},
             dxrCommandListResult : {S_OK, E_FAIL}] :
        FAILED(c.supportResult) => c.RaytracingTier = "NOT_SUPPORTED" }

\* Client sizes a WM_SIZE message may report
WindowSizes == { <<1280, 720>>, <<800, 600>> }

\* The mesh Game loads (Mesh.cpp): its vertex and index buffers are the
\* first two resources of the device.
SphereMesh == [vb |-> 1, ib |-> 2]

Max(a, b) == IF a > b THEN a ELSE b

----------------------------------------------------------------------------
\* Small helpers of the model

Halted(s) == s.pc \in {"crashed", "hung"}

\* One entry of the call trace: the object called, the method, a detail, the
\* resources it names (their ids, in argument order) and its numeric arguments.
CallRec(obj, call, what, res, args) ==
    [obj |-> obj, call |-> call, what |-> what, res |-> res, args |-> args]

Call(s, obj, call, what, res, args) ==
    [s EXCEPT !.trace = Append(@, CallRec(obj, call, what, res, args))]

\* A call on the shared command list: it is recorded when the list is
\* recording, and is an API misuse on a closed list.
Record(s, call, what, res, args) ==
    LET t == Call(s, "list", call, what, res, args) IN
    IF s.gfx.CommandList.state = "recording"
    THEN [t EXCEPT !.gfx.CommandList.cmds = Append(@, CallRec("list", call, what, res, args))]
    ELSE [t EXCEPT !.viol.listMisuse = TRUE]

Crash(s) == [s EXCEPT !.pc = "crashed"]

----------------------------------------------------------------------------
\* The device and the GPU timeline

HeapSize == MaxConstantBuffers + MaxTextureDescriptors   \* Graphics.cpp 303

NoDescriptor == [view |-> "none", r |-> 0]

\* ID3D12Device::CreateCommittedResource: a new resource, numbered after the
\* ones created so far.  data is the CPU-visible content of a mapped buffer.
NewResourceId(s) == Len(s.gpu.res) + 1

CreateCommittedResource(s, kind, size, w, h, state, data) ==
    LET r == [kind |-> kind, size |-> size, w |-> w, h |-> h,
              state |-> state, alive |-> TRUE, data |-> data]
    IN  Call([s EXCEPT !.gpu.res = Append(@, r)],
             "device", "CreateCommittedResource", kind, <<NewResourceId(s)>>, <<size>>)

\* A resource is in use while a command that names it is recorded in the
\* shared command list or waits in the queue.
CmdUses(c, id) == \E i \in 1..Len(c.res) : c.res[i] = id

InUse(s, id) ==
    \/ /\ s.gfx.CommandList.state = "recording"
       /\ \E i \in 1..Len(s.gfx.CommandList.cmds) : CmdUses(s.gfx.CommandList.cmds[i], id)
    \/ \E k \in 1..Len(s.gpu.queue) :
          \E i \in 1..Len(s.gpu.queue[k].cmds) : CmdUses(s.gpu.queue[k].cmds[i], id)

\* ComPtr::Reset / overwriting a ComPtr that holds the only reference.
Release(s, id) ==
    IF id = NULL THEN s
    ELSE [s EXCEPT !.gpu.res[id].alive = FALSE,
                   !.viol.releasedInUse = @ \/ InUse(s, id)]

\* Writing a view into the shader-visible heap through a CPU handle.
SlotOfCPU(s, h) == (h - s.gpu.dev.cpuStart) \div s.gpu.dev.inc
SlotOfGPU(s, h) == (h - s.gpu.dev.gpuStart) \div s.gpu.dev.inc

WriteDescriptor(s, slot, view, r) ==
    IF slot \in 0..(HeapSize - 1)
    THEN [s EXCEPT !.gpu.heap[slot] = [view |-> view, r |-> r]]
    ELSE [s EXCEPT !.viol.heapOverflow = TRUE]

CreateView(s, call, view, r, cpuHandle) ==
    Call(WriteDescriptor(s, SlotOfCPU(s, cpuHandle), view, r),
         "device", call, view, <<r>>, <<SlotOfCPU(s, cpuHandle)>>)

\* The GPU retires the head of the queue: a command list is executed, a
\* fence signal sets the fence's completed value.
SignalItem(fence, value) ==
    [type |-> "signal", alloc |-> -1, cmds |-> <<>>, fence |-> fence, value |-> value]
ListItem(alloc, cmds) ==
    [type |-> "list", alloc |-> alloc, cmds |-> cmds, fence |-> "", value |-> 0]

RetireOne(g) ==
    LET it == Head(g.queue)
        g1 == [g EXCEPT !.queue = Tail(@)]
    IN  IF it.type = "signal"
        THEN [g1 EXCEPT !.fences[it.fence] = it.value]
        ELSE g1

RECURSIVE RetireN(_, _)
RetireN(g, n) == IF n = 0 THEN g ELSE RetireN(RetireOne(g), n - 1)

\* ID3D12CommandQueue::Signal
Signal(s, fence, value) ==
    Call([s EXCEPT !.gpu.queue = Append(@, SignalItem(fence, value))],
         "queue", "Signal", fence, <<>>, <<value>>)

\* if (fence->GetCompletedValue() < value) { SetEventOnCompletion; WaitForSingleObject }
\* The wait returns when the GPU has retired the first queued signal that takes
\* the fence to value or beyond; it never returns when no such signal is queued.
ReachingSignals(g, fence, value) ==
    { k \in 1..Len(g.queue) :
        /\ g.queue[k].type = "signal"
        /\ g.queue[k].fence = fence
        /\ g.queue[k].value >= value }

MinOf(S) == CHOOSE k \in S : \A j \in S : k <= j

WaitForFence_NoBlock(s, fence, value) == s

WaitForFence(s, fence, value) ==
    IF s.gpu.fences[fence] >= value THEN s
    ELSE LET w == Call(s, "fence", "WaitForSingleObject", fence, <<>>, <<value>>)
             K == ReachingSignals(s.gpu, fence, value)
         IN  IF K = {} THEN [w EXCEPT !.pc = "hung"]
             ELSE [w EXCEPT !.gpu = RetireN(s.gpu, MinOf(K))]

----------------------------------------------------------------------------
\* namespace Graphics (Graphics.cpp)

\* Graphics::AdvanceSwapChainIndex
AdvanceSwapChainIndex_NoSignal(s) ==
    IF Halted(s) THEN s ELSE
    LET cur == s.gfx.currentBackBufferIndex
        currentFenceCounter == s.gfx.FrameSyncFenceCounters[cur]
        nextBuffer == (cur + 1) % NumBackBuffers
        s2 == WaitForFence(s, "FrameSyncFence", s.gfx.FrameSyncFenceCounters[nextBuffer])
    IN  IF Halted(s2) THEN s2
        ELSE [s2 EXCEPT !.gfx.FrameSyncFenceCounters[nextBuffer] = currentFenceCounter + 1,
                        !.gfx.currentBackBufferIndex = nextBuffer]

AdvanceSwapChainIndex_NoWait(s) ==
    IF Halted(s) THEN s ELSE
    LET cur == s.gfx.currentBackBufferIndex
        currentFenceCounter == s.gfx.FrameSyncFenceCounters[cur]
        s1 == Signal(s, "FrameSyncFence", currentFenceCounter)
        nextBuffer == (cur + 1) % NumBackBuffers
    IN  [s1 EXCEPT !.gfx.FrameSyncFenceCounters[nextBuffer] = currentFenceCounter + 1,
                   !.gfx.currentBackBufferIndex = nextBuffer]

AdvanceSwapChainIndex(s) ==
    IF Halted(s) THEN s ELSE
    LET cur == s.gfx.currentBackBufferIndex
        currentFenceCounter == s.gfx.FrameSyncFenceCounters[cur]
        s1 == Signal(s, "FrameSyncFence", currentFenceCounter)
        nextBuffer == (cur + 1) % NumBackBuffers
        s2 == WaitForFence(s1, "FrameSyncFence", s1.gfx.FrameSyncFenceCounters[nextBuffer])
    IN  IF Halted(s2) THEN s2
        ELSE [s2 EXCEPT !.gfx.FrameSyncFenceCounters[nextBuffer] = currentFenceCounter + 1,
                        !.gfx.currentBackBufferIndex = nextBuffer]

\* Graphics::WaitForGPU
WaitForGPU_SignalOnly(s) ==
    IF Halted(s) THEN s ELSE
    LET s1 == [s EXCEPT !.gfx.WaitFenceCounter = @ + 1]
    IN  Signal(s1, "WaitFence", s1.gfx.WaitFenceCounter)

WaitForGPU(s) ==
    IF Halted(s) THEN s ELSE
    LET s1 == [s EXCEPT !.gfx.WaitFenceCounter = @ + 1]
        s2 == Signal(s1, "WaitFence", s1.gfx.WaitFenceCounter)
    IN  WaitForFence(s2, "WaitFence", s1.gfx.WaitFenceCounter)

\* Graphics::CreateBuffer
CreateBuffer(s, kind, size, state, data) ==
    CreateCommittedResource(s, kind, size, 0, 0, state, data)

\* Lists recorded with allocator i that the GPU has not retired yet.
AllocatorInFlight(s, i) ==
    \E k \in 1..Len(s.gpu.queue) : s.gpu.queue[k].type = "list" /\ s.gpu.queue[k].alloc = i

\* Graphics::ResetAllocatorAndCommandList.  D3D12 forbids resetting an
\* allocator whose lists are still executing, and resetting a list that is
\* still recording; the flags remember that it happened.
ResetAllocatorAndCommandList(s, swapChainIndex) ==
    IF Halted(s) THEN s ELSE
    LET s1 == Call(s, "allocator", "Reset", "", <<>>, <<swapChainIndex>>)
        s2 == Call(s1, "list", "Reset", "", <<>>, <<swapChainIndex>>)
        s3 == [s2 EXCEPT !.viol.resetInFlight = @ \/ AllocatorInFlight(s, swapChainIndex)]
    IN  IF s.gfx.CommandList.state = "recording"
        THEN [s3 EXCEPT !.viol.listMisuse = TRUE]
        ELSE [s3 EXCEPT !.gfx.CommandList =
                            [state |-> "recording", alloc |-> swapChainIndex, cmds |-> <<>>]]

\* The acceleration structure builds and UAV barriers of a command list.
AccelCmd(c) ==
    \/ c.call = "BuildRaytracingAccelerationStructure"
    \/ (c.call = "ResourceBarrier" /\ c.what = "UAV")

\* CommandList->Close(); CommandQueue->ExecuteCommandLists(1, lists)
\* (Graphics::CloseAndExecuteCommandList, and the tails of CreateTLAS and Raytrace)
CloseAndExecuteCommandList(s) ==
    IF Halted(s) THEN s ELSE
    LET cl == s.gfx.CommandList
        s1 == Call(s, "list", "Close", "", <<>>, <<>>)
        s2 == Call(s1, "queue", "ExecuteCommandLists", "", <<>>, <<>>)
    IN  IF cl.state = "recording"
        THEN [s2 EXCEPT !.gfx.CommandList.state = "closed",
                        !.gpu.queue = Append(@, ListItem(cl.alloc, cl.cmds)),
                        !.gpu.stream = @ \o SelectSeq(cl.cmds, AccelCmd)]
        ELSE [s2 EXCEPT !.viol.listMisuse = TRUE]

\* Graphics::ReserveSrvUavDescriptorHeapSlot: the two handles it stores, and
\* the state after it.
ReservedCPUHandle(s) == s.gpu.dev.cpuStart + s.gfx.srvDescriptorOffset * s.gpu.dev.inc
ReservedGPUHandle(s) == s.gpu.dev.gpuStart + s.gfx.srvDescriptorOffset * s.gpu.dev.inc

ReserveSrvUavDescriptorHeapSlot_NoAdvance(s) == s

ReserveSrvUavDescriptorHeapSlot(s) ==
    [s EXCEPT !.gfx.srvDescriptorOffset = @ + 1]

\* Graphics::CopySRVsToDescriptorHeapAndGetGPUDescriptorHandle
RECURSIVE CopyDescriptorsSimple(_, _, _)
CopyDescriptorsSimple(s, n, slot) ==
    IF n = 0 THEN s
    ELSE CopyDescriptorsSimple(WriteDescriptor(s, slot, "SRV", NULL), n - 1, slot + 1)

CopySRVs_AdvanceByOne(s, numDescriptorsToCopy) ==
    IF Halted(s) THEN s ELSE
    LET s1 == CopyDescriptorsSimple(s, numDescriptorsToCopy, s.gfx.srvDescriptorOffset)
        s2 == Call(s1, "device", "CopyDescriptorsSimple", "SRV", <<>>,
                   <<numDescriptorsToCopy, s.gfx.srvDescriptorOffset>>)
    IN  [s2 EXCEPT !.gfx.srvDescriptorOffset = @ + 1]

CopySRVsToDescriptorHeapAndGetGPUDescriptorHandle(s, numDescriptorsToCopy) ==
    IF Halted(s) THEN s ELSE
    LET s1 == CopyDescriptorsSimple(s, numDescriptorsToCopy, s.gfx.srvDescriptorOffset)
        s2 == Call(s1, "device", "CopyDescriptorsSimple", "SRV", <<>>,
                   <<numDescriptorsToCopy, s.gfx.srvDescriptorOffset>>)
    IN  [s2 EXCEPT !.gfx.srvDescriptorOffset = @ + numDescriptorsToCopy]

\* Graphics::FillNextConstantBufferAndGetGPUDescriptorHandle: where the data
\* goes, the handle returned, and the state after it.
ReservationSize(dataSizeInBytes) == ((dataSizeInBytes + 255) \div 256) * 256

UploadOffset_NoWrap(s, dataSizeInBytes) == s.gfx.cbUploadHeapOffsetInBytes

UploadOffset_StrictlyOver(s, dataSizeInBytes) ==
    IF s.gfx.cbUploadHeapOffsetInBytes + ReservationSize(dataSizeInBytes)
           > s.gfx.cbUploadHeapSizeInBytes
    THEN 0
    ELSE s.gfx.cbUploadHeapOffsetInBytes

UploadOffset(s, dataSizeInBytes) ==
    IF s.gfx.cbUploadHeapOffsetInBytes + ReservationSize(dataSizeInBytes)
           >= s.gfx.cbUploadHeapSizeInBytes
    THEN 0
    ELSE s.gfx.cbUploadHeapOffsetInBytes

\* lines 748-750: the CBV cursor after a view was created at slot
NextCBVSlot_NoWrap(slot) == slot + 1

NextCBVSlot(slot) == IF slot + 1 >= MaxConstantBuffers THEN 0 ELSE slot + 1

ConstantBufferGPUHandle(s) == s.gpu.dev.gpuStart + s.gfx.cbvDescriptorOffset * s.gpu.dev.inc

FillNextConstantBufferAndGetGPUDescriptorHandle(s, dataSizeInBytes) ==
    IF Halted(s) THEN s ELSE
    LET reservationSize == ReservationSize(dataSizeInBytes)
        at == UploadOffset(s, dataSizeInBytes)
        after == IF at + reservationSize >= s.gfx.cbUploadHeapSizeInBytes
                 THEN 0 ELSE at + reservationSize
        slot == s.gfx.cbvDescriptorOffset
        s1 == Call(s, "upload", "memcpy", "CBUploadHeap", <<>>, <<at, dataSizeInBytes>>)
        s2 == Call(WriteDescriptor(s1, slot, "CBV", NULL),
                   "device", "CreateConstantBufferView", "CBV", <<>>,
                   <<slot, at, reservationSize>>)
    IN  [s2 EXCEPT !.gpu.cbv[slot] = [at |-> at, size |-> reservationSize],
                   !.gfx.cbUploadHeapOffsetInBytes = after,
                   !.gfx.cbvDescriptorOffset = NextCBVSlot(slot)]

----------------------------------------------------------------------------
\* namespace RayTracing (RayTracing.cpp)

\* #define ALIGN(value, alignment)
ALIGN_PastBoundary(value, alignment) == ((value + alignment) \div alignment) * alignment

ALIGN(value, alignment) == ((value + alignment - 1) \div alignment) * alignment

\* CreateShaderTable, lines 370-380: the record size, the largest of the three
\* candidate sizes after each was aligned.
RecordSizeOf_OneHandle(idSize, handleSize, recordAlignment) ==
    Max(ALIGN(idSize, recordAlignment), ALIGN(idSize + handleSize, recordAlignment))

RecordSizeOf(idSize, handleSize, recordAlignment) ==
    LET shaderTableRayGenRecordSize == ALIGN(idSize, recordAlignment)
        shaderTableMissRecordSize == ALIGN(idSize, recordAlignment)
        shaderTableHitGroupRecordSize == ALIGN(idSize + handleSize * 2, recordAlignment)
    IN  Max(shaderTableRayGenRecordSize,
            Max(shaderTableMissRecordSize, shaderTableHitGroupRecordSize))

\* CreateShaderTable, lines 383-384: the size of the table buffer.
TableSizeOf(recordSize, tableAlignment) == ALIGN(recordSize * 3, tableAlignment)

\* Bytes of mapped memory are triples: an unwritten or plain byte is
\* <<"byte", "", value>>, byte k of a shader identifier is <<"id", name, k>>.
PlainByte(v) == <<"byte", "", v>>
ShaderIdentifier(name) ==
    [k \in 1..D3D12_SHADER_IDENTIFIER_SIZE_IN_BYTES |-> <<"id", name, k - 1>>]

\* The little-endian bytes of a descriptor handle (handles of the model stay
\* below 2^31, so the four high bytes are zero).
HandleBytes(h) ==
    [k \in 1..SizeofGpuDescriptorHandle |->
        PlainByte(IF k <= 4 THEN (h \div (256 ^ (k - 1))) % 256 ELSE 0)]

\* memcpy into a mapped buffer; writing past its end is flagged.
Memcpy(s, id, offset, bytes) ==
    LET size == s.gpu.res[id].size IN
    IF offset + Len(bytes) > size
    THEN [s EXCEPT !.viol.bufferOverrun = TRUE]
    ELSE [s EXCEPT !.gpu.res[id].data =
              [i \in 0..(size - 1) |->
                  IF i >= offset /\ i < offset + Len(bytes)
                  THEN bytes[i - offset + 1] ELSE @[i]]]

\* RayTracing::CreateRaytracingRootSignatures.  A root signature is the
\* sequence of its root parameters.
CreateRaytracingRootSignatures(s) ==
    IF Halted(s) \/ s.rt.dxrInitialized \/ ~s.rt.dxrAvailable THEN s ELSE
    LET s1 == Call(s, "device", "CreateRootSignature", "global", <<>>, <<>>)
        s2 == Call(s1, "device", "CreateRootSignature", "local", <<>>, <<>>)
    IN  [s2 EXCEPT !.rt.GlobalRaytracingRootSig = <<"TABLE_UAV", "SRV", "TABLE_CBV">>,
                   !.rt.LocalRaytracingRootSig = <<"TABLE_CBV", "TABLE_SRV">>]

\* RayTracing::CreateRaytracingPipelineState.  The state object is the set of
\* names a shader identifier can be fetched for.
CreateRaytracingPipelineState(s) ==
    IF Halted(s) \/ s.rt.dxrInitialized \/ ~s.rt.dxrAvailable THEN s ELSE
    LET s1 == Call(s, "device", "CreateStateObject", "", <<>>, <<>>)
    IN  [s1 EXCEPT !.rt.RaytracingPipelineStateObject = {"RayGen", "Miss", "HitGroup"}]

\* RayTracing::CreateShaderTable
CreateShaderTable(s) ==
    IF Halted(s) \/ s.rt.dxrInitialized \/ ~s.rt.dxrAvailable THEN s ELSE
    LET recordSize == RecordSizeOf(D3D12_SHADER_IDENTIFIER_SIZE_IN_BYTES,
                                   SizeofGpuDescriptorHandle,
                                   D3D12_RAYTRACING_SHADER_RECORD_BYTE_ALIGNMENT)
        shaderTableSize == TableSizeOf(recordSize, D3D12_RAYTRACING_SHADER_TABLE_BYTE_ALIGNMENT)
        id == NewResourceId(s)
        s1 == CreateBuffer(s, "ShaderTable", shaderTableSize, "GENERIC_READ",
                           [i \in 0..(shaderTableSize - 1) |-> PlainByte(s.gpu.dev.fresh)])
        s2 == [s1 EXCEPT !.rt.ShaderTableRecordSize = recordSize,
                         !.rt.ShaderTable = id]
        s3 == Memcpy(s2, id, 0, ShaderIdentifier("RayGen"))
        s4 == Memcpy(s3, id, recordSize, ShaderIdentifier("Miss"))
    IN  Memcpy(s4, id, recordSize + recordSize, ShaderIdentifier("HitGroup"))

\* CreateRaytracingOutputUAV, line 445: if (!RaytracingOutputUAV_GPU.ptr)
NeedsUAVSlot_Always(s) == TRUE
NeedsUAVSlot(s) == s.rt.RaytracingOutputUAV_GPU = 0

\* CreateRaytracingOutputUAV, line 440: the state the output image is created in
RaytracingOutputInitialState_UnorderedAccess == "UNORDERED_ACCESS"

RaytracingOutputInitialState == "COPY_SOURCE"

\* RayTracing::CreateRaytracingOutputUAV
CreateRaytracingOutputUAV(s, width, height) ==
    IF Halted(s) THEN s ELSE
    IF ~s.rt.DXRDevice THEN Crash(s) ELSE
    LET id == NewResourceId(s)
        s1 == [CreateCommittedResource(s, "RaytracingOutput", 0, width, height,
                                       RaytracingOutputInitialState, <<>>)
                  EXCEPT !.rt.RaytracingOutput = id]
        s2 == IF NeedsUAVSlot(s1)
              THEN [ReserveSrvUavDescriptorHeapSlot(s1)
                       EXCEPT !.rt.RaytracingOutputUAV_CPU = ReservedCPUHandle(s1),
                              !.rt.RaytracingOutputUAV_GPU = ReservedGPUHandle(s1)]
              ELSE s1
    IN  CreateView(s2, "CreateUnorderedAccessView", "UAV", id, s2.rt.RaytracingOutputUAV_CPU)

\* Initialize, line 45: the first of the three checks
SupportCheckFails_TierIgnored(caps) == FAILED(caps.supportResult)
SupportCheckFails(caps) ==
    FAILED(caps.supportResult) \/ caps.RaytracingTier = "NOT_SUPPORTED"

\* RayTracing::Initialize.  s.ret is the HRESULT it returns.
Initialize(s, outputWidth, outputHeight) ==
    IF Halted(s) THEN s ELSE
    LET caps == s.gpu.caps
        supportResult == caps.supportResult
        s1 == Call(s, "device", "CheckFeatureSupport", "OPTIONS5", <<>>, <<>>)
        s2 == [Call(s1, "device", "QueryInterface", "ID3D12Device5", <<>>, <<>>)
                  EXCEPT !.rt.DXRDevice = ~FAILED(caps.dxrDeviceResult)]
        s3 == [Call(s2, "list", "QueryInterface", "ID3D12GraphicsCommandList4", <<>>, <<>>)
                  EXCEPT !.rt.DXRCommandList = ~FAILED(caps.dxrCommandListResult)]
    IN  IF SupportCheckFails(caps)
        THEN [s3 EXCEPT !.ret = supportResult]
        ELSE IF FAILED(caps.dxrDeviceResult)
        THEN [s3 EXCEPT !.ret = caps.dxrDeviceResult]
        ELSE IF FAILED(caps.dxrCommandListResult)
        THEN [s3 EXCEPT !.ret = caps.dxrCommandListResult]
        ELSE
        LET s4 == [s3 EXCEPT !.rt.dxrAvailable = TRUE]
            s5 == CreateRaytracingRootSignatures(s4)
            s6 == CreateRaytracingPipelineState(s5)
            s7 == CreateShaderTable(s6)
            s8 == CreateRaytracingOutputUAV(s7, outputWidth, outputHeight)
        IN  IF Halted(s8) THEN s8
            ELSE [s8 EXCEPT !.rt.dxrInitialized = TRUE, !.ret = S_OK]

\* RayTracing::ResizeOutputUAV
ResizeOutputUAV_NoWait(s, outputWidth, outputHeight) ==
    IF Halted(s) \/ ~s.rt.dxrInitialized \/ ~s.rt.dxrAvailable THEN s ELSE
    CreateRaytracingOutputUAV(
        [Release(s, s.rt.RaytracingOutput) EXCEPT !.rt.RaytracingOutput = NULL],
        outputWidth, outputHeight)

ResizeOutputUAV(s, outputWidth, outputHeight) ==
    IF Halted(s) \/ ~s.rt.dxrInitialized \/ ~s.rt.dxrAvailable THEN s ELSE
    LET s1 == WaitForGPU(s)
        s2 == [Release(s1, s1.rt.RaytracingOutput) EXCEPT !.rt.RaytracingOutput = NULL]
    IN  IF Halted(s1) THEN s1
        ELSE CreateRaytracingOutputUAV(s2, outputWidth, outputHeight)

\* Where CreateBLAS writes the geometry handle (lines 594-597): past the ray
\* generation and miss records, past the hit group's identifier and its first
\* (CBV) handle.
GeometryHandleOffset_NoIdentifier(recordSize) ==
    recordSize + recordSize + SizeofGpuDescriptorHandle

GeometryHandleOffset_MissRecord(recordSize) ==
    recordSize + D3D12_SHADER_IDENTIFIER_SIZE_IN_BYTES + SizeofGpuDescriptorHandle

GeometryHandleOffset_NoCBV(recordSize) ==
    recordSize + recordSize + D3D12_SHADER_IDENTIFIER_SIZE_IN_BYTES

GeometryHandleOffset(recordSize) ==
    recordSize + recordSize
        + D3D12_SHADER_IDENTIFIER_SIZE_IN_BYTES + SizeofGpuDescriptorHandle

\* CreateBLAS, lines 551-555: the UAV barrier on the BLAS just built
BLASBarrier_Omitted(s, blas) == s

BLASBarrier(s, blas) == Record(s, "ResourceBarrier", "UAV", <<blas>>, <<1>>)

\* RayTracing::CreateBLAS
CreateBLAS(s, mesh) ==
    IF Halted(s) \/ ~s.rt.dxrAvailable THEN s ELSE
    LET pre == s.gpu.dev.prebuildBLAS
        s1 == Call(s, "device", "GetRaytracingAccelerationStructurePrebuildInfo",
                   "BOTTOM_LEVEL", <<>>, <<pre.scratch, pre.result>>)
        scratchSize == ALIGN(pre.scratch, D3D12_RAYTRACING_ACCELERATION_STRUCTURE_BYTE_ALIGNMENT)
        resultSize == ALIGN(pre.result, D3D12_RAYTRACING_ACCELERATION_STRUCTURE_BYTE_ALIGNMENT)
        scratch == NewResourceId(s1)
        s2 == [Release(CreateBuffer(s1, "BLASScratchBuffer", scratchSize,
                                    "UNORDERED_ACCESS", <<>>), s1.rt.BLASScratchBuffer)
                  EXCEPT !.rt.BLASScratchBuffer = scratch]
        blas == NewResourceId(s2)
        s3 == [Release(CreateBuffer(s2, "BLAS", resultSize,
                                    "RAYTRACING_ACCELERATION_STRUCTURE", <<>>), s2.rt.BLAS)
                  EXCEPT !.rt.BLAS = blas]
        s4 == Record(s3, "BuildRaytracingAccelerationStructure", "BOTTOM_LEVEL",
                     <<blas, scratch, mesh.vb, mesh.ib>>, <<>>)
        s5 == BLASBarrier(s4, blas)
        ib_cpu == ReservedCPUHandle(s5)
        s6 == [ReserveSrvUavDescriptorHeapSlot(s5)
                  EXCEPT !.rt.indexBufferSRV = ReservedGPUHandle(s5)]
        vb_cpu == ReservedCPUHandle(s6)
        s7 == [ReserveSrvUavDescriptorHeapSlot(s6)
                  EXCEPT !.rt.vertexBufferSRV = ReservedGPUHandle(s6)]
        s8 == CreateView(s7, "CreateShaderResourceView", "SRV", mesh.ib, ib_cpu)
        s9 == CreateView(s8, "CreateShaderResourceView", "SRV", mesh.vb, vb_cpu)
    IN  IF s9.rt.ShaderTable = NULL THEN Crash(s9)
        ELSE Memcpy(s9, s9.rt.ShaderTable,
                    GeometryHandleOffset(s9.rt.ShaderTableRecordSize),
                    HandleBytes(s9.rt.indexBufferSRV))

\* RayTracing::CreateTLAS
CreateTLAS(s) ==
    IF Halted(s) \/ ~s.rt.dxrAvailable THEN s ELSE
    IF s.rt.BLAS = NULL THEN Crash(s) ELSE    \* BLAS->GetGPUVirtualAddress()
    LET pre == s.gpu.dev.prebuildTLAS
        desc == NewResourceId(s)
        s1 == [Release(CreateBuffer(s, "TLASInstanceDescBuffer", SizeofInstanceDesc,
                                    "GENERIC_READ", <<>>), s.rt.TLASInstanceDescBuffer)
                  EXCEPT !.rt.TLASInstanceDescBuffer = desc]
        s2 == Call(s1, "device", "GetRaytracingAccelerationStructurePrebuildInfo",
                   "TOP_LEVEL", <<>>, <<pre.scratch, pre.result>>)
        scratchSize == ALIGN(pre.scratch, D3D12_RAYTRACING_ACCELERATION_STRUCTURE_BYTE_ALIGNMENT)
        resultSize == ALIGN(pre.result, D3D12_RAYTRACING_ACCELERATION_STRUCTURE_BYTE_ALIGNMENT)
        scratch == NewResourceId(s2)
        s3 == [Release(CreateBuffer(s2, "TLASScratchBuffer", scratchSize,
                                    "UNORDERED_ACCESS", <<>>), s2.rt.TLASScratchBuffer)
                  EXCEPT !.rt.TLASScratchBuffer = scratch]
        tlas == NewResourceId(s3)
        s4 == [Release(CreateBuffer(s3, "TLAS", resultSize,
                                    "RAYTRACING_ACCELERATION_STRUCTURE", <<>>), s3.rt.TLAS)
                  EXCEPT !.rt.TLAS = tlas]
        s5 == Record(s4, "BuildRaytracingAccelerationStructure", "TOP_LEVEL",
                     <<tlas, scratch, desc, s.rt.BLAS>>, <<>>)
        s6 == Record(s5, "ResourceBarrier", "UAV", <<tlas>>, <<1>>)
        s7 == CloseAndExecuteCommandList(s6)
        s8 == WaitForGPU(s7)
    IN  ResetAllocatorAndCommandList(s8, 0)

\* One transition barrier of a ResourceBarrier call: the resource's state in
\* the command stream moves to after; a wrong before-state is flagged.
Transition(s, id, before, after) ==
    IF id = NULL THEN s
    ELSE [s EXCEPT !.gpu.res[id].state = after,
                   !.viol.barrierMismatch = @ \/ (s.gpu.res[id].state # before)]

\* Raytrace, lines 790-804: the final transitions and the copy
FinalTransitions_CopyLast(s, currentBackBuffer, output) ==
    LET s1 == Record(Transition(s, output, "UNORDERED_ACCESS", "COPY_SOURCE"),
                     "ResourceBarrier", "UNORDERED_ACCESS>COPY_SOURCE", <<output>>, <<1>>)
        s2 == Record(Transition(s1, currentBackBuffer, "COPY_DEST", "PRESENT"),
                     "ResourceBarrier", "COPY_DEST>PRESENT", <<currentBackBuffer>>, <<1>>)
    IN  Record(s2, "CopyResource", "", <<currentBackBuffer, output>>, <<>>)

FinalTransitions(s, currentBackBuffer, output) ==
    LET s1 == Record(Transition(s, output, "UNORDERED_ACCESS", "COPY_SOURCE"),
                     "ResourceBarrier", "UNORDERED_ACCESS>COPY_SOURCE", <<output>>, <<1>>)
        s2 == Record(s1, "CopyResource", "", <<currentBackBuffer, output>>, <<>>)
    IN  Record(Transition(s2, currentBackBuffer, "COPY_DEST", "PRESENT"),
               "ResourceBarrier", "COPY_DEST>PRESENT", <<currentBackBuffer>>, <<1>>)

\* RayTracing::Raytrace
Raytrace(s, currentBackBuffer) ==
    IF Halted(s) \/ ~s.rt.dxrInitialized \/ ~s.rt.dxrAvailable THEN s ELSE
    LET output == s.rt.RaytracingOutput
        stride == s.rt.ShaderTableRecordSize
        s1 == Record(Transition(Transition(s, currentBackBuffer, "PRESENT", "COPY_DEST"),
                                output, "COPY_SOURCE", "UNORDERED_ACCESS"),
                     "ResourceBarrier", "PRESENT>COPY_DEST,COPY_SOURCE>UNORDERED_ACCESS",
                     <<currentBackBuffer, output>>, <<2>>)
        cbuffer == ConstantBufferGPUHandle(s1)
        s2 == FillNextConstantBufferAndGetGPUDescriptorHandle(s1, SizeofRaytracingSceneData)
        s3 == Record(s2, "SetDescriptorHeaps", "CBVSRVDescriptorHeap", <<>>, <<1>>)
        s4 == Record(s3, "SetPipelineState1", "RaytracingPipelineStateObject", <<>>, <<>>)
        s5 == Record(s4, "SetComputeRootSignature", "GlobalRaytracingRootSig", <<>>, <<>>)
        s6 == Record(s5, "SetComputeRootDescriptorTable", "RaytracingOutputUAV_GPU",
                     <<>>, <<0, s.rt.RaytracingOutputUAV_GPU>>)
    IN  IF s.rt.TLAS = NULL THEN Crash(s6) ELSE    \* TLAS->GetGPUVirtualAddress()
    LET s7 == Record(s6, "SetComputeRootShaderResourceView", "TLAS", <<s.rt.TLAS>>, <<1>>)
        s8 == Record(s7, "SetComputeRootDescriptorTable", "cbuffer", <<>>, <<2, cbuffer>>)
    IN  IF s.rt.ShaderTable = NULL THEN Crash(s8) ELSE
    LET s9 == Record(s8, "DispatchRays", "", <<s.rt.ShaderTable, output>>,
                     << 0, stride,
                        stride, stride, stride,
                        stride * 2, stride, stride,
                        s.win.windowWidth, s.win.windowHeight, 1 >>)
        s10 == FinalTransitions(s9, currentBackBuffer, output)
    IN  CloseAndExecuteCommandList(s10)

----------------------------------------------------------------------------
\* Graphics::ResizeBuffers, Game and the window procedure

\* IDXGISwapChain::Present: the swap chain moves to its next buffer.
Present(s) ==
    IF Halted(s) THEN s ELSE
    [Call(s, "swapchain", "Present", "", <<s.gfx.BackBuffers[s.gpu.swapIndex]>>, <<>>)
        EXCEPT !.gpu.swapIndex = (@ + 1) % NumBackBuffers]

\* ResizeBuffers, lines 476-479:
\* while (currentBackBufferIndex != 0) AdvanceSwapChainIndex();
ResetSwapChainIndex_Skipped(s) == s

RECURSIVE ResetSwapChainIndex(_)
ResetSwapChainIndex(s) ==
    IF Halted(s) \/ s.gfx.currentBackBufferIndex = 0 THEN s
    ELSE ResetSwapChainIndex(AdvanceSwapChainIndex(s))

\* Graphics::ResizeBuffers (the depth buffer and the render target views,
\* which ray tracing does not use, are left out).
ResizeBuffers(s, width, height) ==
    IF Halted(s) \/ ~s.gfx.apiInitialized THEN s ELSE
    LET s1 == WaitForGPU(s)
        s2 == Release(Release(s1, s1.gfx.BackBuffers[0]), s1.gfx.BackBuffers[1])
        s3 == [Call(s2, "swapchain", "ResizeBuffers", "", <<>>, <<width, height>>)
                  EXCEPT !.gpu.swapIndex = 0]
        b0 == NewResourceId(s3)
        s4 == CreateCommittedResource(s3, "BackBuffer", 0, width, height, "PRESENT", <<>>)
        b1 == NewResourceId(s4)
        s5 == [CreateCommittedResource(s4, "BackBuffer", 0, width, height, "PRESENT", <<>>)
                  EXCEPT !.gfx.BackBuffers = [i \in 0..(NumBackBuffers - 1) |->
                                                 IF i = 0 THEN b0 ELSE b1]]
        s6 == ResetSwapChainIndex(s5)
    IN  IF Halted(s1) THEN s1 ELSE WaitForGPU(s6)

\* Game::Initialize
GameInitialize(s) ==
    LET s1 == Initialize(s, s.win.windowWidth, s.win.windowHeight)
        s2 == CreateBLAS(s1, SphereMesh)
        s3 == CreateTLAS(s2)
        s4 == CloseAndExecuteCommandList(s3)
    IN  WaitForGPU(s4)

\* Game::OnResize
OnResize_OutputKept(s) == s

OnResize(s) == ResizeOutputUAV(s, s.win.windowWidth, s.win.windowHeight)

\* Game::Draw
Draw(s) ==
    LET s1 == ResetAllocatorAndCommandList(s, s.gfx.currentBackBufferIndex)
        currentBackBuffer == s1.gfx.BackBuffers[s1.gfx.currentBackBufferIndex]
        s2 == Raytrace(s1, currentBackBuffer)
        s3 == Present(s2)
    IN  AdvanceSwapChainIndex(s3)

\* Window::ProcessMessage, case WM_SIZE
ProcessMessage_WM_SIZE_MinimizedToo(s, minimized, width, height) ==
    LET s1 == [s EXCEPT !.win.isMinimized = minimized]
        s2 == [s1 EXCEPT !.win.windowWidth = width, !.win.windowHeight = height]
        s3 == ResizeBuffers(s2, s2.win.windowWidth, s2.win.windowHeight)
    IN  OnResize(s3)

ProcessMessage_WM_SIZE(s, minimized, width, height) ==
    LET s1 == [s EXCEPT !.win.isMinimized = minimized] IN
    IF minimized THEN s1
    ELSE LET s2 == [s1 EXCEPT !.win.windowWidth = width, !.win.windowHeight = height]
             s3 == ResizeBuffers(s2, s2.win.windowWidth, s2.win.windowHeight)
         IN  OnResize(s3)

----------------------------------------------------------------------------
\* class Transform (Transform.cpp): the hierarchy functions.  x.node maps each
\* Transform to its parent pointer (0 is null), its children vector and its
\* matricesDirty flag; x.crashed is set when a call recurses without end.
\* The positions, rotations, scales and matrices themselves are left out.

Transforms == 1..MaxTransforms

\* Transform::Transform
NewTransforms ==
    [t \in Transforms |-> [parent |-> 0, children |-> <<>>, matricesDirty |-> FALSE]]

Range(seq) == {seq[i] : i \in 1..Len(seq)}

\* The Transforms a recursion over the children vectors visits from those of S.
RECURSIVE ReachableFrom(_, _)
ReachableFrom(node, S) ==
    LET S2 == S \cup UNION {Range(node[n].children) : n \in S}
    IN  IF S2 = S THEN S ELSE ReachableFrom(node, S2)

Descendants(node, t) == ReachableFrom(node, Range(node[t].children))

\* Transform::MarkChildTransformsDirty: every descendant becomes dirty; the
\* recursion has no end when it meets a Transform that is its own descendant.
MarkChildTransformsDirty(x, t) ==
    LET D == Descendants(x.node, t) IN
    IF \E n \in D : n \in Descendants(x.node, n)
    THEN [x EXCEPT !.crashed = TRUE]
    ELSE [x EXCEPT !.node = [n \in Transforms |->
                                IF n \in D THEN [@[n] EXCEPT !.matricesDirty = TRUE]
                                ELSE @[n]]]

\* Transform::UpdateMatrices, called by GetWorldMatrix
RECURSIVE UpdateMatrices(_, _)
UpdateMatrices(x, t) ==
    IF ~x.node[t].matricesDirty THEN x
    ELSE LET x1 == IF x.node[t].parent # 0 THEN UpdateMatrices(x, x.node[t].parent) ELSE x
         IN  [x1 EXCEPT !.node[t].matricesDirty = FALSE]

GetWorldMatrix(x, t) == UpdateMatrices(x, t)

\* Transform::SetTransformsFromMatrix
SetTransformsFromMatrix(x, t) == [x EXCEPT !.node[t].matricesDirty = TRUE]

\* Transform::IndexOfChild
IndexOfChild(x, this, child) ==
    IF child = 0 THEN -1
    ELSE LET found == {i \in 1..Len(x.node[this].children) : x.node[this].children[i] = child}
         IN  IF found = {} THEN -1 ELSE MinOf(found) - 1

\* Transform::AddChild
AddChild(x, this, child, makeChildRelative) ==
    IF x.crashed \/ child = 0 THEN x
    ELSE IF IndexOfChild(x, this, child) >= 0 THEN x
    ELSE LET x1 == IF makeChildRelative
                   THEN SetTransformsFromMatrix(
                            GetWorldMatrix(GetWorldMatrix(x, this), child), child)
                   ELSE x
             x2 == [x1 EXCEPT !.node[this].children = Append(@, child)]
             x3 == [x2 EXCEPT !.node[child].parent = this]
             x4 == [x3 EXCEPT !.node[child].matricesDirty = TRUE]
         IN  MarkChildTransformsDirty(x4, child)

\* Transform::RemoveChild
RemoveChild(x, this, child, applyParentTransform) ==
    IF x.crashed \/ child = 0 THEN x
    ELSE IF IndexOfChild(x, this, child) < 0 THEN x
    ELSE LET it == IndexOfChild(x, this, child) + 1
             x1 == IF applyParentTransform
                   THEN SetTransformsFromMatrix(GetWorldMatrix(x, child), child)
                   ELSE x
             x2 == [x1 EXCEPT !.node[this].children =
                                  SubSeq(@, 1, it - 1) \o SubSeq(@, it + 1, Len(@))]
             x3 == [x2 EXCEPT !.node[child].parent = 0]
             x4 == [x3 EXCEPT !.node[child].matricesDirty = TRUE]
         IN  MarkChildTransformsDirty(x4, child)

\* Transform::SetParent
SetParent(x, this, newParent, makeChildRelative) ==
    IF x.crashed THEN x ELSE
    LET x1 == IF x.node[this].parent # 0
              THEN RemoveChild(x, x.node[this].parent, this, TRUE)
              ELSE x
    IN  IF newParent # 0 THEN AddChild(x1, newParent, this, makeChildRelative) ELSE x1

----------------------------------------------------------------------------
\* State machine

\* The state the handlers work on, and its write-back.
Cur ==
    [rt |-> rt, gfx |-> gfx, gpu |-> gpu, win |-> win, pc |-> pc, viol |-> viol,
     trace |-> <<>>, ret |-> S_OK]

Commit(s, name) ==
    /\ rt' = s.rt
    /\ gfx' = s.gfx
    /\ gpu' = s.gpu
    /\ win' = s.win
    /\ pc' = s.pc
    /\ viol' = s.viol
    /\ trace' = s.trace
    /\ lastOp' = [name |-> name, ret |-> s.ret]
    /\ opCount' = opCount + 1
    /\ UNCHANGED <<calc, xf>>

NoCalc == [pc |-> "idle", idSize |-> 0, handleSize |-> 0, recordAlignment |-> 0,
           tableAlignment |-> 0, recordSize |-> 0, tableSize |-> 0]

\* The program after Window::Create and Graphics::Initialize, with the mesh
\* buffers and the two back buffers as resources 1 to 4.
InitialResources(w, h) ==
    << [kind |-> "VertexBuffer", size |-> 0, w |-> 0, h |-> 0, state |-> "GENERIC_READ",
        alive |-> TRUE, data |-> <<>>],
       [kind |-> "IndexBuffer", size |-> 0, w |-> 0, h |-> 0, state |-> "GENERIC_READ",
        alive |-> TRUE, data |-> <<>>],
       [kind |-> "BackBuffer", size |-> 0, w |-> w, h |-> h, state |-> "PRESENT",
        alive |-> TRUE, data |-> <<>>],
       [kind |-> "BackBuffer", size |-> 0, w |-> w, h |-> h, state |-> "PRESENT",
        alive |-> TRUE, data |-> <<>>] >>

InitProgramOn(profiles) ==
    /\ rt = [dxrAvailable |-> FALSE, dxrInitialized |-> FALSE,
             DXRDevice |-> FALSE, DXRCommandList |-> FALSE,
             GlobalRaytracingRootSig |-> <<>>, LocalRaytracingRootSig |-> <<>>,
             RaytracingPipelineStateObject |-> {},
             ShaderTable |-> NULL, ShaderTableRecordSize |-> 0,
             TLASScratchBuffer |-> NULL, BLASScratchBuffer |-> NULL,
             TLASInstanceDescBuffer |-> NULL, TLAS |-> NULL, BLAS |-> NULL,
             RaytracingOutput |-> NULL,
             RaytracingOutputUAV_CPU |-> 0, RaytracingOutputUAV_GPU |-> 0,
             indexBufferSRV |-> 0, vertexBufferSRV |-> 0]
    /\ gfx = [apiInitialized |-> TRUE,
              currentBackBufferIndex |-> 0,
              cbvDescriptorOffset |-> 0,
              srvDescriptorOffset |-> MaxConstantBuffers,
              cbUploadHeapSizeInBytes |-> MaxConstantBuffers * 256,
              cbUploadHeapOffsetInBytes |-> 0,
              WaitFenceCounter |-> 1,
              FrameSyncFenceCounters |-> [i \in 0..(NumBackBuffers - 1) |-> 0],
              BackBuffers |-> [i \in 0..(NumBackBuffers - 1) |-> 3 + i],
              CommandList |-> [state |-> "recording", alloc |-> 0, cmds |-> <<>>]]
    /\ \E d \in profiles, c \in DeviceCaps :
          gpu = [dev |-> d, caps |-> c,
                 queue |-> <<>>,
                 stream |-> <<>>,
                 fences |-> [f \in {"WaitFence", "FrameSyncFence"} |->
                                IF f = "WaitFence" THEN 1 ELSE 0],
                 res |-> InitialResources(1280, 720),
                 heap |-> [i \in 0..(HeapSize - 1) |-> NoDescriptor],
                 cbv |-> [i \in 0..(MaxConstantBuffers - 1) |-> [at |-> 0, size |-> 0]],
                 swapIndex |-> 0]
    /\ win = [windowWidth |-> 1280, windowHeight |-> 720, isMinimized |-> FALSE]
    /\ pc = "running"
    /\ viol = [resetInFlight |-> FALSE, listMisuse |-> FALSE, releasedInUse |-> FALSE,
               heapOverflow |-> FALSE, bufferOverrun |-> FALSE, barrierMismatch |-> FALSE]
    /\ trace = <<>>
    /\ lastOp = [name |-> "none", ret |-> S_OK]
    /\ opCount = 0
    /\ xf = NewTransforms

InitProgram == InitProgramOn(DeviceProfiles)

Init == InitProgram /\ calc = NoCalc

\* The GPU retires the next item of its queue.
GPUStep ==
    /\ pc = "running"
    /\ gpu.queue # <<>>
    /\ gpu' = RetireOne(gpu)
    /\ UNCHANGED <<rt, gfx, win, pc, viol, trace, lastOp, opCount, calc, xf>>

\* --- the program: Main.cpp runs Game::Initialize, then the message loop ---

DoGameInitialize ==
    /\ pc = "running" /\ opCount = 0
    /\ Commit(GameInitialize(Cur), "Game::Initialize")

DoDraw ==
    /\ pc = "running" /\ opCount > 0 /\ opCount < MaxSteps
    /\ Commit(Draw(Cur), "Game::Draw")

DoWM_SIZE ==
    /\ pc = "running" /\ opCount > 0 /\ opCount < MaxSteps
    /\ \E minimized \in BOOLEAN, size \in WindowSizes :
          Commit(ProcessMessage_WM_SIZE(Cur, minimized, size[1], size[2]), "WM_SIZE")

Next == DoGameInitialize \/ DoDraw \/ DoWM_SIZE \/ GPUStep

Spec == Init /\ [][Next]_vars

\* --- the library: the public functions called in any order ---

ApiGuard == pc = "running" /\ opCount < MaxOps

ApiInitialize ==
    /\ ApiGuard
    /\ Commit(Initialize(Cur, win.windowWidth, win.windowHeight), "Initialize")

ApiCreateBLAS ==
    /\ ApiGuard
    /\ Commit(CreateBLAS(Cur, SphereMesh), "CreateBLAS")

ApiCreateTLAS ==
    /\ ApiGuard
    /\ Commit(CreateTLAS(Cur), "CreateTLAS")

ApiRaytrace ==
    /\ ApiGuard
    /\ Commit(Raytrace(Cur, gfx.BackBuffers[gfx.currentBackBufferIndex]), "Raytrace")

ApiResizeOutputUAV ==
    /\ ApiGuard
    /\ \E size \in WindowSizes :
          Commit(ResizeOutputUAV([Cur EXCEPT !.win.windowWidth = size[1],
                                             !.win.windowHeight = size[2]],
                                 size[1], size[2]), "ResizeOutputUAV")

ApiCopySRVs ==
    /\ ApiGuard
    /\ \E n \in 1..2 :
          Commit(CopySRVsToDescriptorHeapAndGetGPUDescriptorHandle(Cur, n), "CopySRVs")

ApiFillConstantBuffer ==
    /\ ApiGuard
    /\ \E size \in {SizeofRaytracingSceneData, 256, 300} :
          Commit(FillNextConstantBufferAndGetGPUDescriptorHandle(Cur, size),
                 "FillNextConstantBuffer")

ApiResetAllocatorAndCommandList ==
    /\ ApiGuard
    /\ Commit(ResetAllocatorAndCommandList(Cur, gfx.currentBackBufferIndex),
              "ResetAllocatorAndCommandList")

NextApi ==
    \/ ApiInitialize \/ ApiCreateBLAS \/ ApiCreateTLAS \/ ApiRaytrace
    \/ ApiResizeOutputUAV \/ ApiCopySRVs \/ ApiFillConstantBuffer
    \/ ApiResetAllocatorAndCommandList \/ GPUStep

SpecApi == Init /\ [][NextApi]_vars

\* --- the pure size computation of CreateShaderTable on bounded inputs ---

InitSizes ==
    /\ InitProgram
    /\ calc \in [pc : {"in"}, idSize : 1..MaxIdSize, handleSize : 0..MaxHandleSize,
                 recordAlignment : 1..MaxAlign, tableAlignment : 1..MaxAlign,
                 recordSize : {0}, tableSize : {0}]

ComputeShaderTableSizes ==
    /\ calc.pc = "in"
    /\ LET recordSize == RecordSizeOf(calc.idSize, calc.handleSize, calc.recordAlignment)
       IN  calc' = [calc EXCEPT !.pc = "out",
                                !.recordSize = recordSize,
                                !.tableSize = TableSizeOf(recordSize, calc.tableAlignment)]
    /\ UNCHANGED <<rt, gfx, gpu, win, pc, viol, trace, lastOp, opCount, xf>>

NextSizes == ComputeShaderTableSizes

SpecSizes == InitSizes /\ [][NextSizes]_vars

\* --- Game::Initialize on devices reporting every prebuild size of a range ---

PrebuildProfiles ==
    { [inc |-> 32, cpuStart |-> 4096, gpuStart |-> 8192, fresh |-> 0,
       prebuildBLAS |-> [scratch |-> r, result |-> r + 256],
       prebuildTLAS |-> [scratch |-> 2 * r, result |-> r + 1]] : r \in 0..MaxPrebuildSize }

InitPrebuild == InitProgramOn(PrebuildProfiles) /\ calc = NoCalc

NextPrebuild == DoGameInitialize

SpecPrebuild == InitPrebuild /\ [][NextPrebuild]_vars

\* --- the constant-buffer ring alone: reservations of every size that fits ---

\* The sizes tried: those up to the capacity of the ring that are a multiple
\* of 256, one more, or one less.
RingSizes ==
    { n \in 1..(MaxConstantBuffers * 256) : n % 256 \in {0, 1, 255} }

InitRing ==
    /\ InitProgram
    /\ gpu.caps = [supportResult |-> S_OK, RaytracingTier |-> "TIER_1_0",
                   dxrDeviceResult |-> S_OK, dxrCommandListResult |-> S_OK]
    /\ calc = NoCalc

RingFill ==
    /\ pc = "running" /\ opCount < MaxRingOps
    /\ \E size \in RingSizes :
          Commit(FillNextConstantBufferAndGetGPUDescriptorHandle(Cur, size),
                 "FillNextConstantBuffer")

NextRing == RingFill

SpecRing == InitRing /\ [][NextRing]_vars

\* --- the Transform hierarchy: its three functions called in any order ---

CurTransforms == [node |-> xf, crashed |-> FALSE]

CommitTransforms(x, name) ==
    /\ xf' = x.node
    /\ pc' = IF x.crashed THEN "crashed" ELSE pc
    /\ lastOp' = [name |-> name, ret |-> S_OK]
    /\ opCount' = opCount + 1
    /\ UNCHANGED <<rt, gfx, gpu, win, viol, trace, calc>>

TransformGuard == pc = "running" /\ opCount < MaxTransformOps

DoAddChild ==
    /\ TransformGuard
    /\ \E this \in Transforms, child \in {0} \cup Transforms, makeChildRelative \in BOOLEAN :
          CommitTransforms(AddChild(CurTransforms, this, child, makeChildRelative), "AddChild")

DoRemoveChild ==
    /\ TransformGuard
    /\ \E this \in Transforms, child \in {0} \cup Transforms, applyParentTransform \in BOOLEAN :
          CommitTransforms(RemoveChild(CurTransforms, this, child, applyParentTransform),
                           "RemoveChild")

DoSetParent ==
    /\ TransformGuard
    /\ \E this \in Transforms, newParent \in {0} \cup Transforms, makeChildRelative \in BOOLEAN :
          CommitTransforms(SetParent(CurTransforms, this, newParent, makeChildRelative),
                           "SetParent")

NextTransforms == DoAddChild \/ DoRemoveChild \/ DoSetParent

SpecTransforms == InitRing /\ [][NextTransforms]_vars

----------------------------------------------------------------------------
\* Properties

\* The handler of the step that has just been taken
Ran(names) == opCount' # opCount /\ lastOp'.name \in names

\* The device lacks what RayTracing::Initialize asks for
Unsupported(caps) ==
    \/ FAILED(caps.supportResult)
    \/ caps.RaytracingTier = "NOT_SUPPORTED"
    \/ FAILED(caps.dxrDeviceResult)
    \/ FAILED(caps.dxrCommandListResult)

AllStructuresNull(r) ==
    r.BLAS = NULL /\ r.TLAS = NULL /\ r.ShaderTable = NULL /\ r.RaytracingOutput = NULL

\* C1: whenever Game::Draw has reset the allocator of its frame, the GPU had
\* retired every command list recorded with that allocator (no reset of an
\* allocator with a list of its own still in the queue has happened).
C1_ResetOnlyAfterRetire ==
    lastOp.name = "Game::Draw" => ~viol.resetInFlight

\* C2: on a device without ray tracing support, every call of CreateBLAS,
\* CreateTLAS, Raytrace and ResizeOutputUAV makes no device, command-list or
\* queue call, reserves no descriptor slot and changes nothing, and BLAS, TLAS,
\* the shader table and the output image are null before and after it.
C2_DisabledCallsAreNoOps ==
    [][ (Unsupported(gpu.caps)
            /\ Ran({"CreateBLAS", "CreateTLAS", "Raytrace", "ResizeOutputUAV"}))
        => /\ trace' = <<>>
           /\ rt' = rt /\ gfx' = gfx /\ gpu' = gpu /\ pc' = pc
           /\ ~rt'.dxrAvailable /\ ~rt'.dxrInitialized
           /\ AllStructuresNull(rt) /\ AllStructuresNull(rt') ]_vars

\* An entry point was called after an Initialize that found no support.
C2_Witness ==
    /\ Unsupported(gpu.caps)
    /\ rt.DXRDevice /\ ~rt.dxrAvailable
    /\ lastOp.name \in {"CreateBLAS", "CreateTLAS", "Raytrace", "ResizeOutputUAV"}

\* C3: a Raytrace call made while the TLAS is null is a no-op: it makes no
\* device, command-list or queue call.
C3_RaytraceWithoutTLASIsNoOp ==
    (lastOp.name = "Raytrace" /\ rt.TLAS = NULL) => (trace = <<>> /\ pc = "running")

\* C4: when the feature query succeeds and reports the tier unsupported,
\* Initialize returns a status other than the S_OK of a complete setup and
\* leaves dxrAvailable and dxrInitialized false.
C4_UnsupportedStatusIsDistinct ==
    (/\ lastOp.name = "Initialize"
     /\ ~FAILED(gpu.caps.supportResult)
     /\ gpu.caps.RaytracingTier = "NOT_SUPPORTED")
    => (lastOp.ret # S_OK /\ ~rt.dxrAvailable /\ ~rt.dxrInitialized)

\* C5: an enabled Raytrace call makes exactly these calls in this order: the
\* batch of two transitions, the constant upload and its CBV, the descriptor
\* heap, pipeline state, root signature and three root parameters, DispatchRays,
\* output to copy-source, the copy into the back buffer, back buffer to present,
\* Close and ExecuteCommandLists; and no fence wait.
Steps(tr) == [i \in 1..Len(tr) |-> <<tr[i].call, tr[i].what>>]

RaytraceSteps ==
    << <<"ResourceBarrier", "PRESENT>COPY_DEST,COPY_SOURCE>UNORDERED_ACCESS">>,
       <<"memcpy", "CBUploadHeap">>,
       <<"CreateConstantBufferView", "CBV">>,
       <<"SetDescriptorHeaps", "CBVSRVDescriptorHeap">>,
       <<"SetPipelineState1", "RaytracingPipelineStateObject">>,
       <<"SetComputeRootSignature", "GlobalRaytracingRootSig">>,
       <<"SetComputeRootDescriptorTable", "RaytracingOutputUAV_GPU">>,
       <<"SetComputeRootShaderResourceView", "TLAS">>,
       <<"SetComputeRootDescriptorTable", "cbuffer">>,
       <<"DispatchRays", "">>,
       <<"ResourceBarrier", "UNORDERED_ACCESS>COPY_SOURCE">>,
       <<"CopyResource", "">>,
       <<"ResourceBarrier", "COPY_DEST>PRESENT">>,
       <<"Close", "">>,
       <<"ExecuteCommandLists", "">> >>

RaytraceEnabled == rt.dxrInitialized /\ rt.dxrAvailable /\ rt.TLAS # NULL

C5_RaytraceStepOrder ==
    (lastOp.name = "Raytrace" /\ RaytraceEnabled)
    => /\ Steps(trace) = RaytraceSteps
       /\ trace[1].args = <<2>>
       /\ trace[1].res = <<gfx.BackBuffers[gfx.currentBackBufferIndex], rt.RaytracingOutput>>
       /\ trace[11].res = <<rt.RaytracingOutput>>
       /\ trace[12].res = <<gfx.BackBuffers[gfx.currentBackBufferIndex], rt.RaytracingOutput>>
       /\ trace[13].res = <<gfx.BackBuffers[gfx.currentBackBufferIndex]>>
       /\ \A i \in 1..Len(trace) : trace[i].obj # "fence"

\* An enabled Raytrace has run on a recording list and its list is queued.
C5_Witness ==
    /\ lastOp.name = "Raytrace" /\ RaytraceEnabled
    /\ ~viol.listMisuse
    /\ gpu.queue # <<>>
    /\ gpu.queue[Len(gpu.queue)].type = "list"

\* C6: for every identifier size, handle size and alignment of the bounded
\* ranges, the record stride CreateShaderTable computes is
\* align(max(idSize, idSize + 2*handleSize), recordAlignment) and the table
\* length is align(3*stride, tableAlignment); with the program's constants
\* (32, 8, 32, 64) the stride is 64 and the table 192 bytes.
AlignUp(value, alignment) ==
    CHOOSE m \in value..(value + alignment - 1) : m % alignment = 0

ReadBytes(id, offset, n) == [k \in 1..n |-> gpu.res[id].data[offset + k - 1]]

IdentifierAt(offset, name) ==
    ReadBytes(rt.ShaderTable, offset, D3D12_SHADER_IDENTIFIER_SIZE_IN_BYTES)
        = ShaderIdentifier(name)

C7_DispatchMatchesTableLayout ==
    /\ rt.ShaderTable # NULL =>
          /\ rt.ShaderTableRecordSize >= D3D12_SHADER_IDENTIFIER_SIZE_IN_BYTES
          /\ IdentifierAt(0, "RayGen")
          /\ IdentifierAt(rt.ShaderTableRecordSize, "Miss")
          /\ IdentifierAt(2 * rt.ShaderTableRecordSize, "HitGroup")
    /\ \A i \in 1..Len(trace) :
          (lastOp.name = "Raytrace" /\ trace[i].call = "DispatchRays") =>
              /\ trace[i].res[1] = rt.ShaderTable
              /\ trace[i].args[1] = 0
              /\ trace[i].args[3] = rt.ShaderTableRecordSize
              /\ trace[i].args[6] = 2 * rt.ShaderTableRecordSize
              /\ trace[i].args[5] = rt.ShaderTableRecordSize
              /\ trace[i].args[8] = rt.ShaderTableRecordSize

ReleasedOutputs ==
    {i \in DOMAIN gpu.res : gpu.res[i].kind = "RaytracingOutput" /\ ~gpu.res[i].alive}

\* Raytrace dispatched after Initialize, CreateBLAS, CreateTLAS and a resize.
C7_Witness ==
    /\ lastOp.name = "Raytrace" /\ RaytraceEnabled
    /\ \E i \in 1..Len(trace) : trace[i].call = "DispatchRays"
    /\ rt.BLAS # NULL
    /\ ReleasedOutputs # {}

\* C8 as stated: after a successful Initialize, CreateBLAS and CreateTLAS the
\* TLAS is non-null and the first handle-sized slot of the hit group record
\* (the one right after the identifier) holds the index buffer SRV's GPU handle.
HitGroupRecord == 2 * rt.ShaderTableRecordSize

AfterBuildingScene ==
    /\ lastOp.name = "CreateTLAS"
    /\ pc = "running"
    /\ rt.dxrInitialized /\ rt.BLAS # NULL

C8_FirstSlotHoldsIndexSRV ==
    AfterBuildingScene =>
        /\ rt.TLAS # NULL
        /\ ReadBytes(rt.ShaderTable,
                     HitGroupRecord + D3D12_SHADER_IDENTIFIER_SIZE_IN_BYTES,
                     SizeofGpuDescriptorHandle) = HandleBytes(rt.indexBufferSRV)

\* C8: after a successful Initialize, CreateBLAS and CreateTLAS the TLAS is
\* non-null and, in the hit group record, the second handle-sized slot after the
\* identifier holds the index buffer SRV's GPU handle, which addresses a heap
\* slot holding the SRV of the mesh's index buffer; the first slot, the local
\* root signature's constant buffer table, is as the allocation left it.
C8_SecondSlotHoldsIndexSRV ==
    AfterBuildingScene =>
        /\ rt.TLAS # NULL
        /\ gpu.res[rt.TLAS].alive
        /\ rt.LocalRaytracingRootSig = <<"TABLE_CBV", "TABLE_SRV">>
        /\ ReadBytes(rt.ShaderTable,
                     HitGroupRecord + D3D12_SHADER_IDENTIFIER_SIZE_IN_BYTES
                         + SizeofGpuDescriptorHandle,
                     SizeofGpuDescriptorHandle) = HandleBytes(rt.indexBufferSRV)
        /\ ReadBytes(rt.ShaderTable,
                     HitGroupRecord + D3D12_SHADER_IDENTIFIER_SIZE_IN_BYTES,
                     SizeofGpuDescriptorHandle)
               = [k \in 1..SizeofGpuDescriptorHandle |-> PlainByte(gpu.dev.fresh)]
        /\ ~viol.heapOverflow =>
               gpu.heap[SlotOfGPU(Cur, rt.indexBufferSRV)] = [view |-> "SRV", r |-> SphereMesh.ib]

\* Initialize, CreateBLAS and CreateTLAS have run and the scene is built.
C8_Witness ==
    /\ AfterBuildingScene
    /\ rt.TLAS # NULL
    /\ ~viol.heapOverflow
    /\ rt.indexBufferSRV # 0

\* C9: after every CreateBLAS call, whatever was allocated from the heap
\* before it, the vertex buffer SRV is in the slot right after the index buffer
\* SRV's (vertex slot = index slot + 1), index first.
C9_VertexSlotFollowsIndexSlot ==
    (lastOp.name = "CreateBLAS" /\ rt.dxrAvailable /\ pc = "running") =>
        /\ rt.vertexBufferSRV = rt.indexBufferSRV + gpu.dev.inc
        /\ SlotOfGPU(Cur, rt.vertexBufferSRV) = SlotOfGPU(Cur, rt.indexBufferSRV) + 1
        /\ SlotOfGPU(Cur, rt.vertexBufferSRV) + 1 = gfx.srvDescriptorOffset
        /\ ~viol.heapOverflow =>
              /\ gpu.heap[SlotOfGPU(Cur, rt.indexBufferSRV)]
                    = [view |-> "SRV", r |-> SphereMesh.ib]
              /\ gpu.heap[SlotOfGPU(Cur, rt.vertexBufferSRV)]
                    = [view |-> "SRV", r |-> SphereMesh.vb]

\* CreateBLAS ran after texture SRVs and the output UAV had taken slots.
C9_Witness ==
    /\ lastOp.name = "CreateBLAS" /\ rt.dxrAvailable /\ pc = "running"
    /\ ~viol.heapOverflow
    /\ SlotOfGPU(Cur, rt.indexBufferSRV) > MaxConstantBuffers + 1

\* C10: once initialized, the output UAV's CPU and GPU handles never change,
\* and a ResizeOutputUAV call leaves the SRV/UAV cursor where it was and points
\* that same slot at the new output image.
C10_ResizeReusesUAVSlot ==
    [][ (rt.dxrInitialized /\ rt.dxrAvailable) =>
          /\ rt'.RaytracingOutputUAV_CPU = rt.RaytracingOutputUAV_CPU
          /\ rt'.RaytracingOutputUAV_GPU = rt.RaytracingOutputUAV_GPU
          /\ Ran({"ResizeOutputUAV"}) =>
                /\ gfx'.srvDescriptorOffset = gfx.srvDescriptorOffset
                /\ rt'.RaytracingOutput # rt.RaytracingOutput
                /\ SlotOfCPU(Cur, rt.RaytracingOutputUAV_CPU) \in DOMAIN gpu.heap =>
                      gpu'.heap[SlotOfCPU(Cur, rt.RaytracingOutputUAV_CPU)]
                          = [view |-> "UAV", r |-> rt'.RaytracingOutput] ]_vars

\* Two resizes have replaced the output image, the second just now.
C10_Witness ==
    /\ lastOp.name = "ResizeOutputUAV"
    /\ rt.dxrInitialized /\ rt.dxrAvailable
    /\ Cardinality(ReleasedOutputs) >= 2
    /\ SlotOfGPU(Cur, rt.RaytracingOutputUAV_GPU) \in DOMAIN gpu.heap
    /\ gpu.heap[SlotOfGPU(Cur, rt.RaytracingOutputUAV_GPU)]
          = [view |-> "UAV", r |-> rt.RaytracingOutput]

\* C11: FillNextConstantBufferAndGetGPUDescriptorHandle places the data at
\* ring offset 0 exactly when the current offset plus the reservation (the
\* size rounded up to 256) is at least the capacity, the exact fit included,
\* and at the current offset otherwise; the CBV it creates points there.
IsUpload(c) == c.call = "memcpy" /\ c.what = "CBUploadHeap"

C11_RingWrapsAtCapacity ==
    [][ \A i \in 1..Len(trace') :
          (opCount' # opCount /\ IsUpload(trace'[i])) =>
              LET at == trace'[i].args[1]
                  reservation == AlignUp(trace'[i].args[2], 256)
                  offset == gfx.cbUploadHeapOffsetInBytes
                  capacity == gfx.cbUploadHeapSizeInBytes
              IN  /\ (at = 0) <=> (offset + reservation >= capacity \/ offset = 0)
                  /\ (offset + reservation >= capacity) => at = 0
                  /\ (offset + reservation < capacity) => at = offset
                  /\ trace'[i + 1].call = "CreateConstantBufferView"
                  /\ trace'[i + 1].args[2] = at
                  /\ trace'[i + 1].args[3] = reservation ]_vars

\* As many 256-byte-or-larger uploads as there are CBV slots have been made and
\* nothing else; the last found its reservation filling the ring exactly to
\* its end and went to offset 0.
C11_Witness ==
    /\ lastOp.name = "FillNextConstantBuffer"
    /\ opCount = MaxConstantBuffers
    /\ gfx.cbvDescriptorOffset = 0
    /\ IsUpload(trace[1]) /\ trace[1].args[1] = 0
    /\ gfx.cbUploadHeapOffsetInBytes = 256

\* C12: a constant buffer allocation moves the CBV cursor by one (to 0 at a
\* wrap) and leaves the SRV/UAV cursor alone; a copy of n descriptors moves
\* the SRV/UAV cursor by exactly n, an enabled CreateBLAS by 2, the Initialize
\* that reserves the output slot by 1, and these leave the CBV cursor alone; no
\* other call moves the SRV/UAV cursor and none moves it back.
Uploads(tr) == Cardinality({i \in 1..Len(tr) : IsUpload(tr[i])})

Reserved(name, tr) ==
    CASE name = "CopySRVs" -> tr[1].args[1]
      [] name = "CreateBLAS" -> IF rt.dxrAvailable THEN 2 ELSE 0
      [] name = "Initialize" ->
            IF rt'.dxrAvailable /\ rt.RaytracingOutputUAV_GPU = 0 THEN 1 ELSE 0
      [] OTHER -> 0

C12_CursorsAdvanceIndependently ==
    [][ opCount' # opCount =>
          /\ gfx'.srvDescriptorOffset >= gfx.srvDescriptorOffset
          /\ Uploads(trace') =< 1
          /\ Uploads(trace') = 1 =>
                gfx'.cbvDescriptorOffset =
                    IF gfx.cbvDescriptorOffset + 1 = MaxConstantBuffers
                    THEN 0 ELSE gfx.cbvDescriptorOffset + 1
          /\ Uploads(trace') = 0 => gfx'.cbvDescriptorOffset = gfx.cbvDescriptorOffset
          /\ gfx'.srvDescriptorOffset
                = gfx.srvDescriptorOffset + Reserved(lastOp'.name, trace') ]_vars

\* Two descriptors were copied at once after the CBV cursor had wrapped.
C12_Witness ==
    /\ lastOp.name = "CopySRVs"
    /\ trace[1].args[1] = 2
    /\ gfx.srvDescriptorOffset = MaxConstantBuffers + 2
    /\ gfx.cbvDescriptorOffset = 0
    /\ opCount = MaxConstantBuffers + 1

\* C13: no allocation hands out a slot beyond its range: every constant
\* buffer view is created in a slot below MaxConstantBuffers, and every
\* SRV/UAV slot reserved or copied to is below the size of the heap.
C13_SlotsWithinCapacity ==
    /\ gfx.cbvDescriptorOffset < MaxConstantBuffers
    /\ \A i \in 1..Len(trace) :
          /\ trace[i].call = "CreateConstantBufferView" => trace[i].args[1] < MaxConstantBuffers
          /\ trace[i].call \in {"CreateShaderResourceView", "CreateUnorderedAccessView"} =>
                trace[i].args[1] < HeapSize
          /\ trace[i].call = "CopyDescriptorsSimple" =>
                trace[i].args[2] + trace[i].args[1] =< HeapSize
    /\ ~viol.heapOverflow

\* C14: in the builds and barriers submitted to the GPU, every top-level build
\* comes after the build of the BLAS it references, with a UAV barrier on that
\* BLAS between the two, whatever the order of the CreateBLAS and CreateTLAS
\* calls (a CreateTLAS called while there is no BLAS dereferences the null
\* BLAS and records nothing), as long as every call found the shared list
\* recording.
IsBuild(c, level) == c.call = "BuildRaytracingAccelerationStructure" /\ c.what = level

BuiltBefore(stream, i) ==
    \E j \in 1..(i - 1) :
        /\ IsBuild(stream[j], "BOTTOM_LEVEL")
        /\ stream[j].res[1] = stream[i].res[4]
        /\ \E k \in (j + 1)..(i - 1) :
              /\ stream[k].call = "ResourceBarrier" /\ stream[k].what = "UAV"
              /\ stream[k].res = <<stream[i].res[4]>>

C14_BLASBuiltBeforeTLAS ==
    ~viol.listMisuse =>
        /\ \A i \in 1..Len(gpu.stream) :
              IsBuild(gpu.stream[i], "TOP_LEVEL") =>
                  /\ gpu.stream[i].res[4] # NULL
                  /\ BuiltBefore(gpu.stream, i)
        /\ \A i \in 1..Len(trace) :
              (lastOp.name = "CreateTLAS" /\ IsBuild(trace[i], "TOP_LEVEL")) =>
                  \E j \in 1..Len(gpu.stream) :
                      /\ IsBuild(gpu.stream[j], "BOTTOM_LEVEL")
                      /\ gpu.stream[j].res[1] = trace[i].res[4]

\* A second CreateTLAS has submitted a build that references the BLAS of a
\* second CreateBLAS.
C14_Witness ==
    /\ ~viol.listMisuse
    /\ lastOp.name = "CreateTLAS"
    /\ Cardinality({i \in 1..Len(gpu.stream) : IsBuild(gpu.stream[i], "TOP_LEVEL")}) = 2
    /\ Cardinality({i \in 1..Len(gpu.stream) : IsBuild(gpu.stream[i], "BOTTOM_LEVEL")}) = 2
    /\ gpu.stream[Len(gpu.stream) - 1].res[4] = rt.BLAS

\* C15: when an enabled CreateTLAS that found the shared list recording
\* returns, the list with the TLAS build has been closed and submitted, the GPU
\* has retired everything submitted (the WaitFence has reached its counter), the
\* TLAS is non-null, and the list has been reset on allocator 0 and is recording
\* again, empty.
Calls(tr) == [i \in 1..Len(tr) |-> tr[i].call]

C15_CreateTLASCompletes ==
    (lastOp.name = "CreateTLAS" /\ rt.dxrAvailable /\ pc = "running" /\ ~viol.listMisuse) =>
        /\ rt.TLAS # NULL
        /\ gpu.res[rt.TLAS].alive
        /\ gpu.queue = <<>>
        /\ gpu.fences["WaitFence"] = gfx.WaitFenceCounter
        /\ gfx.CommandList = [state |-> "recording", alloc |-> 0, cmds |-> <<>>]
        /\ Len(gpu.stream) >= 2
        /\ IsBuild(gpu.stream[Len(gpu.stream) - 1], "TOP_LEVEL")
        /\ gpu.stream[Len(gpu.stream) - 1].res[1] = rt.TLAS
        /\ gpu.stream[Len(gpu.stream)].res = <<rt.TLAS>>
        /\ Len(trace) >= 6
        /\ SubSeq(Calls(trace), Len(trace) - 5, Len(trace))
              = <<"Close", "ExecuteCommandLists", "Signal", "WaitForSingleObject",
                  "Reset", "Reset">>

\* CreateTLAS returned after building the scene's BLAS and TLAS in one list.
C15_Witness ==
    /\ lastOp.name = "CreateTLAS" /\ rt.dxrAvailable /\ pc = "running" /\ ~viol.listMisuse
    /\ rt.TLAS # NULL /\ rt.BLAS # NULL
    /\ gpu.queue = <<>>
    /\ Len(gpu.stream) = 4

\* C16: the scratch and result buffers of CreateBLAS and of CreateTLAS have
\* the size the device reported rounded up to the acceleration structure
\* alignment: the least multiple of it that is at least the reported size, for
\* every reported size of the range.
SizeOf(id) == gpu.res[id].size

C16_PrebuildSizesAligned ==
    LET A == D3D12_RAYTRACING_ACCELERATION_STRUCTURE_BYTE_ALIGNMENT IN
    /\ rt.BLAS # NULL =>
          /\ SizeOf(rt.BLASScratchBuffer) = AlignUp(gpu.dev.prebuildBLAS.scratch, A)
          /\ SizeOf(rt.BLAS) = AlignUp(gpu.dev.prebuildBLAS.result, A)
          /\ gpu.res[rt.BLAS].kind = "BLAS"
          /\ gpu.res[rt.BLASScratchBuffer].kind = "BLASScratchBuffer"
    /\ rt.TLAS # NULL =>
          /\ SizeOf(rt.TLASScratchBuffer) = AlignUp(gpu.dev.prebuildTLAS.scratch, A)
          /\ SizeOf(rt.TLAS) = AlignUp(gpu.dev.prebuildTLAS.result, A)
          /\ gpu.res[rt.TLAS].kind = "TLAS"
          /\ gpu.res[rt.TLASScratchBuffer].kind = "TLASScratchBuffer"

\* The scene was built on a device that reported a size exactly on the
\* boundary for one buffer and one byte over it for another.
C16_Witness ==
    /\ lastOp.name = "Game::Initialize"
    /\ rt.BLAS # NULL /\ rt.TLAS # NULL
    /\ gpu.dev.prebuildBLAS.scratch = D3D12_RAYTRACING_ACCELERATION_STRUCTURE_BYTE_ALIGNMENT
    /\ SizeOf(rt.BLASScratchBuffer) = gpu.dev.prebuildBLAS.scratch
    /\ gpu.dev.prebuildTLAS.result = D3D12_RAYTRACING_ACCELERATION_STRUCTURE_BYTE_ALIGNMENT + 1
    /\ SizeOf(rt.TLAS) = 2 * D3D12_RAYTRACING_ACCELERATION_STRUCTURE_BYTE_ALIGNMENT

\* C17: at every DispatchRays of a frame, the dispatch width and height are
\* the window's, and the output image and the back buffer that receives the
\* copy both have exactly that width and height, after any frames and WM_SIZE
\* messages.
IndicesOf(tr, call) == {i \in 1..Len(tr) : tr[i].call = call}

SameSize(id, width, height) ==
    id # NULL /\ gpu.res[id].w = width /\ gpu.res[id].h = height

C17_DispatchOutputAndBackBufferSizes ==
    lastOp.name = "Game::Draw" =>
        \A i \in IndicesOf(trace, "DispatchRays") :
            LET width == trace[i].args[9]
                height == trace[i].args[10]
            IN  /\ width = win.windowWidth /\ height = win.windowHeight
                /\ trace[i].res[2] = rt.RaytracingOutput
                /\ SameSize(rt.RaytracingOutput, width, height)
                /\ gpu.res[rt.RaytracingOutput].alive
                /\ IndicesOf(trace, "CopyResource") # {}
                /\ \A j \in IndicesOf(trace, "CopyResource") :
                      /\ trace[j].res[2] = rt.RaytracingOutput
                      /\ SameSize(trace[j].res[1], width, height)
                      /\ gpu.res[trace[j].res[1]].alive

\* A frame was traced after the window had been resized to another size.
C17_Witness ==
    /\ lastOp.name = "Game::Draw"
    /\ IndicesOf(trace, "DispatchRays") # {}
    /\ win.windowWidth # 1280
    /\ ReleasedOutputs # {}
    /\ ~win.isMinimized

\* C18: the back buffer index the program tracks equals the swap chain's own
\* (0 after ResizeBuffers, one further modulo NumBackBuffers after each
\* Present), and every Game::Draw with ray tracing enabled submits exactly one
\* DispatchRays and one copy, into the back buffer of that index, before it
\* calls Present, which shows that buffer.
TheOne(S) == CHOOSE x \in S : TRUE

C18_OneDispatchAndCopyPerFrame ==
    pc = "running" =>
        /\ gfx.currentBackBufferIndex = gpu.swapIndex
        /\ lastOp.name = "WM_SIZE" /\ ~win.isMinimized => gpu.swapIndex = 0
        /\ (lastOp.name = "Game::Draw" /\ rt.dxrInitialized /\ rt.dxrAvailable) =>
              LET drawn == (gfx.currentBackBufferIndex + NumBackBuffers - 1) % NumBackBuffers
                  copy == TheOne(IndicesOf(trace, "CopyResource"))
                  submit == TheOne(IndicesOf(trace, "ExecuteCommandLists"))
                  present == TheOne(IndicesOf(trace, "Present"))
              IN  /\ Cardinality(IndicesOf(trace, "DispatchRays")) = 1
                  /\ Cardinality(IndicesOf(trace, "CopyResource")) = 1
                  /\ Cardinality(IndicesOf(trace, "ExecuteCommandLists")) = 1
                  /\ Cardinality(IndicesOf(trace, "Present")) = 1
                  /\ TheOne(IndicesOf(trace, "DispatchRays")) < copy
                  /\ copy < submit /\ submit < present
                  /\ trace[copy].res[1] = gfx.BackBuffers[drawn]
                  /\ trace[present].res = <<gfx.BackBuffers[drawn]>>
                  /\ ~viol.listMisuse

\* Four handlers after Game::Initialize, a resize among them, the last a
\* frame drawn into back buffer 1.
C18_Witness ==
    /\ pc = "running"
    /\ lastOp.name = "Game::Draw" /\ rt.dxrInitialized /\ rt.dxrAvailable
    /\ gfx.currentBackBufferIndex = 0
    /\ ReleasedOutputs # {}
    /\ opCount = 5
    /\ IndicesOf(trace, "CopyResource") # {}

\* C19: a WM_SIZE that reports minimization leaves the stored width and
\* height as they were and makes no call at all (no ResizeBuffers, no
\* ResizeOutputUAV); any other WM_SIZE stores the new size, then resizes the
\* swap chain to it and only after that, through Game::OnResize, recreates
\* the output image at it.
C19_MinimizeSuppressesResize ==
    [][ Ran({"WM_SIZE"}) =>
          IF win'.isMinimized
          THEN /\ win'.windowWidth = win.windowWidth
               /\ win'.windowHeight = win.windowHeight
               /\ trace' = <<>>
               /\ rt' = rt /\ gfx' = gfx /\ gpu' = gpu
          ELSE LET swap == IndicesOf(trace', "ResizeBuffers")
                   uav == IndicesOf(trace', "CreateUnorderedAccessView")
               IN  /\ Cardinality(swap) = 1
                   /\ trace'[TheOne(swap)].args = <<win'.windowWidth, win'.windowHeight>>
                   /\ \A i \in 0..(NumBackBuffers - 1) :
                         /\ gpu'.res[gfx'.BackBuffers[i]].w = win'.windowWidth
                         /\ gpu'.res[gfx'.BackBuffers[i]].h = win'.windowHeight
                   /\ (rt.dxrInitialized /\ rt.dxrAvailable) =>
                         /\ Cardinality(uav) = 1
                         /\ TheOne(swap) < TheOne(uav)
                         /\ rt'.RaytracingOutput # rt.RaytracingOutput
                         /\ gpu'.res[rt'.RaytracingOutput].w = win'.windowWidth
                         /\ gpu'.res[rt'.RaytracingOutput].h = win'.windowHeight ]_vars

\* The window was minimized after it had been resized to another size.
C19_Witness ==
    /\ lastOp.name = "WM_SIZE"
    /\ win.isMinimized
    /\ trace = <<>>
    /\ win.windowWidth # 1280
    /\ rt.dxrInitialized

\* C20: whenever ResizeOutputUAV discards the output image, every command
\* list submitted before has been retired, so that no queued dispatch or copy
\* refers to a discarded output image, whatever the interleaving of frames,
\* resizes and GPU progress.
QueuedCmds ==
    UNION { {gpu.queue[k].cmds[i] : i \in 1..Len(gpu.queue[k].cmds)} : k \in 1..Len(gpu.queue) }

C20_OutputReleasedAfterRetire ==
    /\ \A c \in QueuedCmds : \A i \in 1..Len(c.res) :
          (c.call \in {"DispatchRays", "CopyResource", "ResourceBarrier"}
              /\ gpu.res[c.res[i]].kind = "RaytracingOutput") => gpu.res[c.res[i]].alive
    /\ (lastOp.name = "ResizeOutputUAV" /\ rt.dxrInitialized /\ rt.dxrAvailable
          /\ pc = "running") =>
          /\ gpu.queue = <<>>
          /\ gpu.fences["WaitFence"] = gfx.WaitFenceCounter
          /\ IndicesOf(trace, "WaitForSingleObject") # {} =>
                TheOne(IndicesOf(trace, "WaitForSingleObject"))
                    < TheOne(IndicesOf(trace, "CreateCommittedResource"))
          /\ gpu.res[rt.RaytracingOutput].alive

\* ResizeOutputUAV replaced the output image after a frame that used it had
\* been submitted.
C20_Witness ==
    /\ lastOp.name = "ResizeOutputUAV" /\ rt.dxrInitialized /\ rt.dxrAvailable
    /\ pc = "running"
    /\ IndicesOf(trace, "WaitForSingleObject") # {}
    /\ ReleasedOutputs # {}
    /\ gfx.CommandList.state = "closed"
    /\ \E i \in 1..Len(gfx.CommandList.cmds) :
          /\ gfx.CommandList.cmds[i].call = "DispatchRays"
          /\ ~gpu.res[gfx.CommandList.cmds[i].res[2]].alive

----------------------------------------------------------------------------
\* C21: no fence wait blocks forever.  Every wait a handler makes (in
\* WaitForGPU or in AdvanceSwapChainIndex) is for a value of its fence that a
\* Signal put on the queue before the wait: either earlier in the same handler
\* or, still unretired, before the handler began; so the wait returns once
\* the GPU has worked through its queue, and the program never hangs.
IsWait(c) == c.call = "WaitForSingleObject"

SignalledBefore(tr, i, queue) ==
    \/ \E j \in 1..(i - 1) :
          /\ tr[j].call = "Signal"
          /\ tr[j].what = tr[i].what
          /\ tr[j].args[1] = tr[i].args[1]
    \/ \E k \in 1..Len(queue) :
          /\ queue[k].type = "signal"
          /\ queue[k].fence = tr[i].what
          /\ queue[k].value = tr[i].args[1]

C21_EveryWaitReturns ==
    [][ opCount' # opCount =>
          /\ pc' # "hung"
          /\ \A i \in 1..Len(trace') :
                IsWait(trace'[i]) => SignalledBefore(trace', i, gpu.queue) ]_vars

\* A frame whose pacing wait had to block, and a handler that blocked in
\* WaitForGPU, both of which returned.
C21_Witness ==
    /\ pc = "running"
    /\ lastOp.name = "Game::Draw"
    /\ \E i \in 1..Len(trace) : IsWait(trace[i]) /\ trace[i].what = "FrameSyncFence"
    /\ gfx.WaitFenceCounter > 2
    /\ gpu.fences["WaitFence"] = gfx.WaitFenceCounter

----------------------------------------------------------------------------
\* C22: at every moment at most NumBackBuffers per-frame command lists are
\* submitted and not yet retired, also right after Game::Draw has submitted
\* the list of its frame; and the pacing wait of AdvanceSwapChainIndex blocks
\* exactly when the frame last submitted for the next buffer index is still
\* unretired: it blocks whenever that frame's list is still queued, and only
\* when a frame's signal is.
ListsInFlight(queue) == Cardinality({k \in 1..Len(queue) : queue[k].type = "list"})

FrameInFlight(queue, index) ==
    \E k \in 1..Len(queue) : queue[k].type = "list" /\ queue[k].alloc = index

PacingWaits(tr) == {i \in 1..Len(tr) : IsWait(tr[i]) /\ tr[i].what = "FrameSyncFence"}

C22_FramesInFlightBounded ==
    [][ (Ran({"Game::Draw"}) /\ pc' = "running") =>
          /\ ListsInFlight(gpu.queue) + Cardinality(IndicesOf(trace', "ExecuteCommandLists"))
                <= NumBackBuffers
          /\ ListsInFlight(gpu'.queue) <= NumBackBuffers
          /\ FrameInFlight(gpu.queue, gfx'.currentBackBufferIndex) => PacingWaits(trace') # {}
          /\ PacingWaits(trace') # {} =>
                \E k \in 1..Len(gpu.queue) :
                    gpu.queue[k].type = "signal" /\ gpu.queue[k].fence = "FrameSyncFence" ]_vars

----------------------------------------------------------------------------
\* C23: CreateBLAS and CreateTLAS never release a scratch buffer while a build
\* command that uses it is recorded in the command list or submitted and not
\* yet retired.  (The old scratch buffer is released when the new one is
\* assigned, before the call records or submits anything.)
ReleasedBy(id) == id # NULL /\ gpu.res[id].alive /\ ~gpu'.res[id].alive

BuildInUse(id) ==
    \/ /\ gfx.CommandList.state = "recording"
       /\ \E i \in 1..Len(gfx.CommandList.cmds) :
             /\ gfx.CommandList.cmds[i].call = "BuildRaytracingAccelerationStructure"
             /\ CmdUses(gfx.CommandList.cmds[i], id)
    \/ \E k \in 1..Len(gpu.queue) : \E i \in 1..Len(gpu.queue[k].cmds) :
             /\ gpu.queue[k].cmds[i].call = "BuildRaytracingAccelerationStructure"
             /\ CmdUses(gpu.queue[k].cmds[i], id)

C23_ScratchOutlivesBuild ==
    [][ Ran({"CreateBLAS", "CreateTLAS"}) =>
          \A id \in {rt.BLASScratchBuffer, rt.TLASScratchBuffer} :
              ReleasedBy(id) => ~BuildInUse(id) ]_vars

\* C23, amended: the same, over the sequences in which CreateBLAS is not
\* called again before a CreateTLAS call has submitted the list holding the
\* earlier BLAS build and waited for it.  (Resources are numbered in creation
\* order, so the TLAS is younger than the BLAS exactly when CreateTLAS has run
\* since the last CreateBLAS.)
TLASCreatedSinceBLAS == rt.BLAS = NULL \/ (rt.TLAS # NULL /\ rt.TLAS > rt.BLAS)

C23_ScratchOutlivesBuildAfterTLAS ==
    [][ (Ran({"CreateBLAS", "CreateTLAS"})
            /\ (lastOp'.name = "CreateBLAS" => TLASCreatedSinceBLAS)) =>
          \A id \in {rt.BLASScratchBuffer, rt.TLASScratchBuffer} :
              ReleasedBy(id) => ~BuildInUse(id) ]_vars

\* A second CreateBLAS, after a CreateTLAS, has released the scratch buffer of
\* the first, whose build the GPU had executed.
C23_Witness ==
    /\ lastOp.name = "CreateBLAS" /\ pc = "running"
    /\ rt.TLAS # NULL /\ rt.TLAS < rt.BLAS
    /\ \E i \in 1..Len(gpu.stream) :
          /\ IsBuild(gpu.stream[i], "BOTTOM_LEVEL")
          /\ gpu.res[gpu.stream[i].res[2]].kind = "BLASScratchBuffer"
          /\ ~gpu.res[gpu.stream[i].res[2]].alive

----------------------------------------------------------------------------
\* C24: in every run of the program, with or without ray tracing, the shared
\* command list alternates between recording and closed: no Reset of a list
\* that is still recording and no Close of a closed list ever happens, and
\* every Game::Draw makes exactly one Close and one ExecuteCommandLists, both
\* before its Present.
C24_ListAlternates ==
    [][ opCount' # opCount =>
          /\ ~viol'.listMisuse
          /\ (lastOp'.name = "Game::Draw" /\ pc' = "running") =>
                /\ Cardinality(IndicesOf(trace', "Close")) = 1
                /\ Cardinality(IndicesOf(trace', "ExecuteCommandLists")) = 1
                /\ Cardinality(IndicesOf(trace', "Present")) = 1
                /\ TheOne(IndicesOf(trace', "Close"))
                      < TheOne(IndicesOf(trace', "ExecuteCommandLists"))
                /\ TheOne(IndicesOf(trace', "ExecuteCommandLists"))
                      < TheOne(IndicesOf(trace', "Present")) ]_vars

----------------------------------------------------------------------------
\* C25: in the program (one constant-buffer reservation per frame), no call of
\* FillNextConstantBufferAndGetGPUDescriptorHandle writes bytes of the upload
\* ring, or a CBV slot, that a submitted and unretired command list still
\* refers to.  A queued list names its CBV slot by the handle it binds as the
\* "cbuffer" root parameter, and the slot's view names the bytes of the ring.
IsCBV(c) == c.call = "CreateConstantBufferView"

QueuedCBVSlots(queue) ==
    UNION { { (queue[k].cmds[i].args[2] - gpu.dev.gpuStart) \div gpu.dev.inc :
                i \in { j \in 1..Len(queue[k].cmds) :
                          /\ queue[k].cmds[j].call = "SetComputeRootDescriptorTable"
                          /\ queue[k].cmds[j].what = "cbuffer" } } :
            k \in 1..Len(queue) }

Overlap(at1, size1, at2, size2) == at1 < at2 + size2 /\ at2 < at1 + size1

C25_NoOverwriteOfInFlightConstants ==
    [][ opCount' # opCount =>
          \A i \in 1..Len(trace') :
             /\ IsCBV(trace'[i]) => trace'[i].args[1] \notin QueuedCBVSlots(gpu.queue)
             /\ IsUpload(trace'[i]) =>
                   \A k \in QueuedCBVSlots(gpu.queue) :
                       ~Overlap(trace'[i].args[1], trace'[i].args[2],
                                gpu.cbv[k].at, gpu.cbv[k].size) ]_vars

\* The ring has wrapped: a frame has written at offset 0 again while the list
\* of the frame before it was still in the queue.
C25_Witness ==
    /\ lastOp.name = "Game::Draw" /\ pc = "running"
    /\ opCount >= MaxConstantBuffers + 1
    /\ \E i \in 1..Len(trace) : IsUpload(trace[i]) /\ trace[i].args[1] = 0
    /\ PacingWaits(trace) # {}
    /\ ListsInFlight(gpu.queue) = 1

----------------------------------------------------------------------------
\* C26: over any sequence of reservations whose sizes, rounded up to 256, do
\* not exceed the capacity of the ring, the ring offset is after every call a
\* multiple of 256 and strictly below the capacity, and the bytes each call
\* writes lie inside [0, capacity).
C26_RingStaysInside ==
    /\ gfx.cbUploadHeapOffsetInBytes % 256 = 0
    /\ gfx.cbUploadHeapOffsetInBytes >= 0
    /\ gfx.cbUploadHeapOffsetInBytes < gfx.cbUploadHeapSizeInBytes
    /\ \A i \in 1..Len(trace) :
          IsUpload(trace[i]) =>
              /\ trace[i].args[1] >= 0
              /\ trace[i].args[1] + trace[i].args[2] <= gfx.cbUploadHeapSizeInBytes

\* A reservation that did not fit in what was left of the ring was written
\* at its start, and one as large as the whole ring filled it exactly.
C26_Witness ==
    /\ lastOp.name = "FillNextConstantBuffer"
    /\ gpu.cbv[0].at = 0 /\ gpu.cbv[1].at = 0
    /\ gpu.cbv[0].size < gfx.cbUploadHeapSizeInBytes
    /\ gpu.cbv[1].size < gfx.cbUploadHeapSizeInBytes
    /\ gpu.cbv[0].size + gpu.cbv[1].size > gfx.cbUploadHeapSizeInBytes
    /\ gpu.cbv[2] = [at |-> 0, size |-> gfx.cbUploadHeapSizeInBytes]
    /\ \E i \in 1..Len(trace) :
          IsUpload(trace[i]) /\ trace[i].args = <<0, gfx.cbUploadHeapSizeInBytes>>
    /\ gfx.cbUploadHeapOffsetInBytes = 0

----------------------------------------------------------------------------
\* C27: every transition barrier Raytrace records declares as before-state
\* the state the resource has at that point of the command stream.  When an
\* enabled Raytrace is entered the output image is in copy-source state and
\* the back buffer in present state, and they are in these states again when
\* it returns.
StateOf(g, id) == g.res[id].state

CurrentBackBuffer == gfx.BackBuffers[gfx.currentBackBufferIndex]

C27_BarriersDeclareActualState ==
    [][ opCount' # opCount =>
          /\ ~viol'.barrierMismatch
          /\ (lastOp'.name = "Raytrace" /\ rt.dxrInitialized /\ rt.dxrAvailable) =>
                /\ StateOf(gpu, rt.RaytracingOutput) = "COPY_SOURCE"
                /\ StateOf(gpu, CurrentBackBuffer) = "PRESENT"
                /\ pc' = "running" =>
                      /\ StateOf(gpu', rt.RaytracingOutput) = "COPY_SOURCE"
                      /\ StateOf(gpu', CurrentBackBuffer) = "PRESENT"
                      /\ Cardinality({i \in 1..Len(trace') :
                                         trace'[i].call = "ResourceBarrier"}) = 3 ]_vars

\* Raytrace has run on an output image that ResizeOutputUAV had created in
\* place of the first one, and has left it in copy-source state.
C27_Witness ==
    /\ lastOp.name = "Raytrace" /\ pc = "running" /\ ~viol.listMisuse
    /\ \E id \in 1..Len(gpu.res) :
          gpu.res[id].kind = "RaytracingOutput" /\ ~gpu.res[id].alive
    /\ \E i \in 1..Len(trace) :
          /\ trace[i].call = "ResourceBarrier"
          /\ trace[i].what = "UNORDERED_ACCESS>COPY_SOURCE"
          /\ trace[i].res = <<rt.RaytracingOutput>>
    /\ StateOf(gpu, rt.RaytracingOutput) = "COPY_SOURCE"
    /\ StateOf(gpu, CurrentBackBuffer) = "PRESENT"

----------------------------------------------------------------------------
\* C28: the CBV cursor stays in [0, MaxConstantBuffers) and every slot the
\* SRV/UAV allocator hands out is at MaxConstantBuffers or above, so no
\* constant-buffer view is ever written over a slot of the output UAV or of
\* the geometry SRVs: constant-buffer views are created below
\* MaxConstantBuffers only, all other views at or above it.
IsSrvUavView(c) ==
    c.call \in {"CreateShaderResourceView", "CreateUnorderedAccessView"}

C28_CBVsNeverOverSrvUavSlots ==
    /\ gfx.cbvDescriptorOffset \in 0..(MaxConstantBuffers - 1)
    /\ gfx.srvDescriptorOffset >= MaxConstantBuffers
    /\ rt.RaytracingOutputUAV_GPU # 0 =>
          /\ SlotOfCPU(Cur, rt.RaytracingOutputUAV_CPU) >= MaxConstantBuffers
          /\ SlotOfGPU(Cur, rt.RaytracingOutputUAV_GPU) >= MaxConstantBuffers
    /\ rt.BLAS # NULL =>
          /\ SlotOfGPU(Cur, rt.indexBufferSRV) >= MaxConstantBuffers
          /\ SlotOfGPU(Cur, rt.vertexBufferSRV) >= MaxConstantBuffers
    /\ \A i \in 1..Len(trace) :
          /\ IsCBV(trace[i]) => trace[i].args[1] \in 0..(MaxConstantBuffers - 1)
          /\ IsSrvUavView(trace[i]) => trace[i].args[1] >= MaxConstantBuffers
          /\ trace[i].call = "CopyDescriptorsSimple" => trace[i].args[2] >= MaxConstantBuffers
    /\ \A slot \in DOMAIN gpu.heap :
          /\ gpu.heap[slot].view = "CBV" => slot < MaxConstantBuffers
          /\ gpu.heap[slot].view \in {"SRV", "UAV"} => slot >= MaxConstantBuffers

\* The CBV cursor has gone round once, next to the slot of the output UAV.
C28_Witness ==
    /\ lastOp.name = "FillNextConstantBuffer"
    /\ gfx.cbvDescriptorOffset = 0
    /\ \A slot \in 0..(MaxConstantBuffers - 1) : gpu.heap[slot].view = "CBV"
    /\ gpu.heap[MaxConstantBuffers].view = "UAV"
    /\ SlotOfCPU(Cur, rt.RaytracingOutputUAV_CPU) = MaxConstantBuffers

----------------------------------------------------------------------------
\* C29: the bytes CreateBLAS writes into the shader table are the handleSize
\* bytes at 2*stride + identifierSize + handleSize (every other byte of the
\* table is left as it was).  They lie inside the hit-group record and
\* inside the buffer, after the record's identifier and its constant-buffer
\* placeholder, and the three shader identifiers are intact after the call.
GeometryWriteStart ==
    2 * rt.ShaderTableRecordSize
        + D3D12_SHADER_IDENTIFIER_SIZE_IN_BYTES + SizeofGpuDescriptorHandle

GeometryWriteEnd == GeometryWriteStart + SizeofGpuDescriptorHandle

C29_GeometryHandleWriteStaysInRecord ==
    [][ (Ran({"CreateBLAS"}) /\ rt.dxrAvailable /\ rt.ShaderTable # NULL) =>
          LET before == gpu.res[rt.ShaderTable].data
              after == gpu'.res[rt.ShaderTable].data
          IN  /\ ~viol'.bufferOverrun
              /\ rt'.ShaderTable = rt.ShaderTable
              /\ DOMAIN after = DOMAIN before
              /\ \A i \in DOMAIN after :
                    IF i >= GeometryWriteStart /\ i < GeometryWriteEnd
                    THEN after[i] = HandleBytes(rt'.indexBufferSRV)[i - GeometryWriteStart + 1]
                    ELSE after[i] = before[i]
              /\ GeometryWriteStart >= 2 * rt.ShaderTableRecordSize
              /\ GeometryWriteEnd <= 3 * rt.ShaderTableRecordSize
              /\ GeometryWriteEnd <= gpu.res[rt.ShaderTable].size
              /\ \A k \in 0..2 : \A j \in 0..(D3D12_SHADER_IDENTIFIER_SIZE_IN_BYTES - 1) :
                    /\ before[k * rt.ShaderTableRecordSize + j][1] = "id"
                    /\ after[k * rt.ShaderTableRecordSize + j]
                          = before[k * rt.ShaderTableRecordSize + j] ]_vars

\* CreateBLAS has written the handle into a table whose fresh bytes differ
\* from every byte of the handle, so that the bytes written are exactly known.
C29_Witness ==
    /\ lastOp.name = "CreateBLAS" /\ pc = "running"
    /\ rt.ShaderTable # NULL /\ rt.BLAS # NULL
    /\ gpu.dev.fresh = 205
    /\ \A i \in DOMAIN gpu.res[rt.ShaderTable].data :
          (gpu.res[rt.ShaderTable].data[i] = PlainByte(205))
              <=> /\ i % rt.ShaderTableRecordSize >= D3D12_SHADER_IDENTIFIER_SIZE_IN_BYTES
                  /\ ~(i >= GeometryWriteStart /\ i < GeometryWriteEnd)

----------------------------------------------------------------------------
\* C30: after any sequence of AddChild, RemoveChild and SetParent calls, a
\* Transform t is in the children of p if and only if the parent of t is p,
\* and so every Transform is in at most one children vector, at most once.
Occurrences(seq, e) == Cardinality({i \in 1..Len(seq) : seq[i] = e})

C30_ChildrenMatchParents ==
    pc = "running" =>
        /\ \A t \in Transforms, p \in Transforms :
              (t \in Range(xf[p].children)) <=> (xf[t].parent = p)
        /\ \A t \in Transforms :
              Cardinality({p \in Transforms : t \in Range(xf[p].children)}) <= 1
        /\ \A t \in Transforms, p \in Transforms : Occurrences(xf[p].children, t) <= 1

====
